---- MODULE Spec2Model ----
(***************************************************************************)
(* OpenWeb crawl engine: the durable job/queue store (WebxStore), the URL  *)
(* utilities and the per-tick state machine of CrawlerService.             *)
(*                                                                         *)
(* URLs are records of their WHATWG components; a serialized URL string is *)
(* the record in canonical form (see ParseURL).  Time is Date.now() in ms. *)
(* Hashes (sha256, 16 hex digits) are modelled by their preimage, tagged.  *)
(***************************************************************************)
EXTENDS Integers, Sequences, FiniteSets, TLC

(* ------------------------------ bounds -------------------------------- *)
ClockStep == 1500
MaxNow == 4500
MaxNowShort == 1500
MaxStarts == 2
MaxFetches == 1
MaxSaves == 3
MaxQueryLen == 2
MaxScoreDepth == 1000000
MaxNodes == 2
MaxLinks == 5
SitemapFanout == 32

(* -------------------------- program constants -------------------------- *)
SeedPriorityBase == 140
MaxRetries == 3
RetryDelayMsDefault == 1500
FailedJobThreshold == 25
DefaultMaxPages == 100
DefaultMaxDepth == 2
DefaultPerDomainDelayMs == 500
DefaultMaxSitemapUrls == 200
ScoreBase == 100
ScoreMax == 150
RobotsTtlMs == 21600000
SampleCap == 50
NodeCap == 150
ActionCap == 80
SitemapExpansions == 12
SitemapQueueCap == 30
SitemapOrigins == 6
SitemapPriority == 120
SitemapTtlMs == 21600000
DefaultSitemapLimit == 100

(* undefined (a failed parse, a missing row); NULL columns                 *)
Undefined == [undefined |-> TRUE]
Null == "NULL"
NoTime == -1

(* ----------------------------- sequences ------------------------------ *)
Range(s) == {s[i] : i \in 1..Len(s)}

RECURSIVE FilterSeq(_, _)
FilterSeq(s, keep) ==
  IF s = <<>> THEN <<>>
  ELSE (IF Head(s) \in keep THEN <<Head(s)>> ELSE <<>>) \o FilterSeq(Tail(s), keep)

(* [...new Set(xs)]: first occurrences, in order                          *)
RECURSIVE Dedupe(_)
Dedupe(s) ==
  IF s = <<>> THEN <<>>
  ELSE LET r == Dedupe(SubSeq(s, 1, Len(s) - 1))
           x == s[Len(s)]
       IN IF x \in Range(r) THEN r ELSE Append(r, x)

Max2(a, b) == IF a >= b THEN a ELSE b
Min2(a, b) == IF a <= b THEN a ELSE b

(* ------------------------- URL string tables --------------------------- *)
(* String.prototype.toLowerCase on the host names that occur              *)
ToLowerCase(s) ==
  CASE s = "Example.com" -> "example.com"
    [] s = "UTM_Source" -> "utm_source"
    [] OTHER -> s

(* the alphanumeric tokens of a host name or path segment, split(/[^a-z0-9]+/) *)
Tokens(s) ==
  CASE s = "example.com" -> {"example", "com"}
    [] s = "other.org" -> {"other", "org"}
    [] s = "docs" -> {"docs"}
    [] s = "guide" -> {"guide"}
    [] s = "file.pdf" -> {"file", "pdf"}
    [] s = "login" -> {"login"}
    [] s = "x" -> {"x"}
    [] OTHER -> {}

TokenLength(t) ==
  CASE t = "x" -> 1
    [] t \in {"com", "org", "pdf"} -> 3
    [] t \in {"docs", "file"} -> 4
    [] t \in {"guide", "other", "login"} -> 5
    [] t = "example" -> 7
    [] OTHER -> 0

TRACKING_PARAMS ==
  {"fbclid", "gclid", "igshid", "mc_cid", "mc_eid", "ref", "ref_src", "source", "spm"}

(* normalizedKey.startsWith("utm_")                                       *)
StartsWithUtm(k) == k \in {"utm_source", "utm_medium", "utm_campaign"}

(* lowerPath.endsWith(ext) for some ext of NON_HTML_EXTENSIONS, by last segment *)
HasNonHtmlExtension(seg) == seg \in {"file.pdf"}

(* path.includes(pattern) for some NUISANCE_PATH_PATTERNS, by segment     *)
NuisanceSegment(seg) == seg \in {"login", "cart", "checkout", "signin", "account", "admin", "graphql"}
NuisanceDirectory(seg) == seg \in {"api", "wp-json", "cdn-cgi"}
NUISANCE_EXACT == {<<"robots.txt">>, <<"sitemap.xml">>, <<"ads.txt">>}

(* /(docs|guide|blog|article|help|support|reference)/i.test(path)         *)
ContentToken(t) == t \in {"docs", "guide", "blog", "article", "help", "support", "reference"}

(* a.localeCompare(b) <= 0 on the query keys that occur                    *)
KeyRank(k) ==
  CASE k = "a" -> 1
    [] k = "b" -> 2
    [] k = "ref" -> 3
    [] k = "utm_source" -> 4
    [] k = "UTM_Source" -> 5
    [] OTHER -> 6

(* ------------------------------- URLs ---------------------------------- *)
(* A raw input string: its components as written, or text that new URL()   *)
(* rejects.  path is the list of segments after the leading "/"; an empty  *)
(* segment "" stands for a doubled or trailing slash.                      *)
Url(protocol, host, port, path, query, hash) ==
  [protocol |-> protocol, host |-> host, port |-> port, path |-> path,
   query |-> query, hash |-> hash]

(* the path "/" is the empty list, so no URL has the path <<"">>          *)
NotAUrl == [protocol |-> "", host |-> "not a url", port |-> "", path |-> <<>>,
            query |-> <<>>, hash |-> ""]

DefaultPort(protocol) ==
  CASE protocol = "http:" -> "80"
    [] protocol = "https:" -> "443"
    [] protocol = "ftp:" -> "21"
    [] OTHER -> ""

(* new URL(input): the host is lowercased and the scheme's default port is *)
(* dropped by the parser itself; text without a scheme throws              *)
ParseURL(input) ==
  IF input.protocol = "" THEN Undefined
  ELSE [input EXCEPT !.host = ToLowerCase(@),
                     !.port = IF @ = DefaultPort(input.protocol) THEN "" ELSE @]

RECURSIVE FilterTracking(_)
FilterTracking(q) ==
  IF q = <<>> THEN <<>>
  ELSE LET normalizedKey == ToLowerCase(Head(q).k)
       IN (IF StartsWithUtm(normalizedKey) \/ normalizedKey \in TRACKING_PARAMS
           THEN <<>> ELSE <<Head(q)>>) \o FilterTracking(Tail(q))

(* Array.prototype.sort by key: stable insertion                           *)
RECURSIVE SortByKey(_)
InsertByKey(sorted, e) ==
  LET n == Cardinality({i \in 1..Len(sorted) : KeyRank(sorted[i].k) <= KeyRank(e.k)})
  IN SubSeq(sorted, 1, n) \o <<e>> \o SubSeq(sorted, n + 1, Len(sorted))
SortByKey(q) ==
  IF q = <<>> THEN <<>> ELSE InsertByKey(SortByKey(SubSeq(q, 1, Len(q) - 1)), q[Len(q)])

(* pathname.replace(/\/+/g, "/") then strip one trailing "/" unless root   *)
RECURSIVE CollapseSlashes(_)
CollapseSlashes(p) ==
  IF Len(p) <= 1 THEN p
  ELSE IF Head(p) = "" THEN CollapseSlashes(Tail(p))
       ELSE <<Head(p)>> \o CollapseSlashes(Tail(p))

(* mutant: the trailing slash stripped before the slashes are collapsed    *)
CleanPathStripFirst(p) ==
  CollapseSlashes(IF p # <<>> /\ p[Len(p)] = "" THEN SubSeq(p, 1, Len(p) - 1) ELSE p)

CleanPath(p) ==
  LET c == CollapseSlashes(p)
  IN IF c # <<>> /\ c[Len(c)] = "" THEN SubSeq(c, 1, Len(c) - 1) ELSE c

normalizeCrawlUrl(input) ==
  LET url == ParseURL(input)
  IN IF url = Undefined THEN Undefined
     ELSE IF url.protocol # "http:" /\ url.protocol # "https:" THEN Undefined
     ELSE [url EXCEPT !.hash = "",
                      !.host = ToLowerCase(@),
                      !.port = IF @ = DefaultPort(url.protocol) THEN "" ELSE @,
                      !.query = SortByKey(FilterTracking(@)),
                      !.path = CleanPath(@)]

isLikelyCrawlableUrl(url) ==
  LET parsed == ParseURL(url)
  IN IF parsed = Undefined THEN FALSE
     ELSE IF parsed.protocol # "http:" /\ parsed.protocol # "https:" THEN FALSE
     ELSE ~(parsed.path # <<>> /\ HasNonHtmlExtension(parsed.path[Len(parsed.path)]))

isNuisanceUrl(url) ==
  LET parsed == ParseURL(url)
  IN IF parsed = Undefined THEN TRUE
     ELSE \/ parsed.path \in NUISANCE_EXACT
          \/ \E i \in 1..Len(parsed.path) : NuisanceSegment(parsed.path[i])
          \/ \E i \in 1..(Len(parsed.path) - 1) : NuisanceDirectory(parsed.path[i])

UrlTokens(url) ==
  Tokens(url.host) \cup UNION {Tokens(url.path[i]) : i \in 1..Len(url.path)}

extractSeedKeywords(seedUrls) ==
  {t \in UNION {UrlTokens(seedUrls[i]) : i \in 1..Len(seedUrls)} :
     TokenLength(t) >= 3 /\ t \notin {"www", "http", "https", "index", "html", "php"}}

(* mutant: the score without Math.max(1, Math.min(150, score))             *)
scoreDiscoveredUrlUnclamped(url, nextDepth, seedHost, seedKeywords) ==
  LET parsed == ParseURL(url)
  IN IF parsed = Undefined THEN 1
     ELSE ScoreBase
          - (IF parsed.host # seedHost THEN 25 ELSE 0)
          - Cardinality({i \in 1..Len(parsed.path) : parsed.path[i] # ""}) * 3
          - nextDepth * 7
          - (IF parsed.query # <<>> THEN 8 ELSE 0)
          + Min2(20, Cardinality(seedKeywords \cap UrlTokens(parsed)) * 4)
          + (IF \E t \in UrlTokens(parsed) : ContentToken(t) THEN 6 ELSE 0)

scoreDiscoveredUrl(url, nextDepth, seedHost, seedKeywords) ==
  LET parsed == ParseURL(url)
  IN IF parsed = Undefined THEN 1
     ELSE LET pathDepth == Cardinality({i \in 1..Len(parsed.path) : parsed.path[i] # ""})
              keywordMatches == Cardinality(seedKeywords \cap UrlTokens(parsed))
              score == ScoreBase
                       - (IF parsed.host # seedHost THEN 25 ELSE 0)
                       - pathDepth * 3
                       - nextDepth * 7
                       - (IF parsed.query # <<>> THEN 8 ELSE 0)
                       + Min2(20, keywordMatches * 4)
                       + (IF \E t \in UrlTokens(parsed) : ContentToken(t) THEN 6 ELSE 0)
          IN Max2(1, Min2(ScoreMax, score))

(* ------------------------------ options -------------------------------- *)
(* CrawlOptionsSchema.parse: the seven keys of the schema, defaults filled *)
(* in, every other key stripped.  An options object is a function from the *)
(* keys it has to their values.                                            *)
CrawlOptionsSchemaParse(options) ==
  [maxPages |-> IF "maxPages" \in DOMAIN options THEN options.maxPages ELSE DefaultMaxPages,
   maxDepth |-> IF "maxDepth" \in DOMAIN options THEN options.maxDepth ELSE DefaultMaxDepth,
   mode |-> IF "mode" \in DOMAIN options THEN options.mode ELSE "compact",
   allowDomains |-> IF "allowDomains" \in DOMAIN options THEN options.allowDomains ELSE {},
   denyDomains |-> IF "denyDomains" \in DOMAIN options THEN options.denyDomains ELSE {},
   respectRobots |-> IF "respectRobots" \in DOMAIN options THEN options.respectRobots ELSE TRUE,
   perDomainDelayMs |-> IF "perDomainDelayMs" \in DOMAIN options
                        THEN options.perDomainDelayMs ELSE DefaultPerDomainDelayMs]

(* seedFromSitemaps, maxSitemapUrls and adaptiveDelay are read from the    *)
(* parsed object, which never has them: they are undefined                 *)
toRuntimeOptions(options) ==
  LET parsed == CrawlOptionsSchemaParse(options)
  IN [maxPages |-> parsed.maxPages,
      maxDepth |-> parsed.maxDepth,
      mode |-> parsed.mode,
      allowDomains |-> parsed.allowDomains,
      denyDomains |-> parsed.denyDomains,
      respectRobots |-> parsed.respectRobots,
      perDomainDelayMs |-> parsed.perDomainDelayMs,
      seedFromSitemaps |-> Undefined,
      maxSitemapUrls |-> Undefined,
      adaptiveDelay |-> Undefined]

(* mutant: shouldQueue without the host checks                             *)
shouldQueueAnyHost(url, options, seedUrls) ==
  IF ~isLikelyCrawlableUrl(url) THEN FALSE
  ELSE ~isNuisanceUrl(url)

shouldQueue(url, options, seedUrls) ==
  IF ~isLikelyCrawlableUrl(url) THEN FALSE
  ELSE IF isNuisanceUrl(url) THEN FALSE
  ELSE LET hostname == ParseURL(url).host
           seedHosts == {ParseURL(seedUrls[i]).host : i \in 1..Len(seedUrls)}
           allowDomains == IF options.allowDomains # {} THEN options.allowDomains ELSE seedHosts
       IN IF hostname \notin allowDomains THEN FALSE
          ELSE hostname \notin options.denyDomains

(* ------------------------------- robots -------------------------------- *)
(* A string that is compared by prefix is the list of its characters.      *)
Digits == <<"0", "1", "2", "3", "4", "5", "6", "7", "8", "9">>

(* the characters of a path segment of the model's URLs                    *)
Chars(seg) ==
  CASE seg = "" -> <<>>
    [] seg = "docs" -> <<"d", "o", "c", "s">>
    [] seg = "guide" -> <<"g", "u", "i", "d", "e">>
    [] seg = "login" -> <<"l", "o", "g", "i", "n">>
    [] seg = "file.pdf" -> <<"f", "i", "l", "e", ".", "p", "d", "f">>
    [] OTHER -> LET n == CHOOSE k \in 0..99 : ToString(k) = seg
                IN IF n < 10 THEN <<Digits[n + 1]>>
                   ELSE <<Digits[(n \div 10) + 1], Digits[(n % 10) + 1]>>

RECURSIVE PathChars(_)
PathChars(path) ==
  IF path = <<>> THEN <<>> ELSE <<"/">> \o Chars(Head(path)) \o PathChars(Tail(path))

(* parsed.pathname: "/" when the URL has no path segment                   *)
Pathname(parsed) == IF parsed.path = <<>> THEN <<"/">> ELSE PathChars(parsed.path)

(* parsed.search: "" without a query, else "?k=v&k=v"; a key or a value is  *)
(* one character of the model                                              *)
RECURSIVE QueryChars(_)
QueryChars(q) ==
  IF q = <<>> THEN <<>>
  ELSE <<Head(q).k, "=", Head(q).v>> \o
       (IF Tail(q) = <<>> THEN <<>> ELSE <<"&">> \o QueryChars(Tail(q)))

Search(parsed) == IF parsed.query = <<>> THEN <<>> ELSE <<"?">> \o QueryChars(parsed.query)

(* new URL(normalizedUrl).origin                                           *)
Origin(url) == <<ParseURL(url).protocol, ParseURL(url).host, ParseURL(url).port>>

(* crawlDelayMs of a rule set without a crawl-delay line: undefined        *)
NoCrawlDelay == NoTime

emptyRules(t) ==
  [fetchedAt |-> t, allow |-> <<>>, disallow |-> <<>>, crawlDelayMs |-> NoCrawlDelay,
   sitemaps |-> <<>>]

(* target.startsWith(rule)                                                 *)
startsWith(target, rule) ==
  Len(rule) <= Len(target) /\ SubSeq(target, 1, Len(rule)) = rule

(* mutant: the longest match without the exception for the rule "/"        *)
RECURSIVE longestMatchLengthWithRoot(_, _)
longestMatchLengthWithRoot(target, rules) ==
  IF rules = <<>> THEN 0
  ELSE LET rule == Head(rules)
           rest == longestMatchLengthWithRoot(target, Tail(rules))
       IN IF rule = <<>> THEN rest
          ELSE IF startsWith(target, rule) THEN Max2(rest, Len(rule))
          ELSE rest

RECURSIVE longestMatchLength(_, _)
longestMatchLength(target, rules) ==
  IF rules = <<>> THEN 0
  ELSE LET rule == Head(rules)
           rest == longestMatchLength(target, Tail(rules))
       IN IF rule = <<>> \/ rule = <<"/">> THEN rest
          ELSE IF startsWith(target, rule) THEN Max2(rest, Len(rule))
          ELSE rest

canCrawl(url, rules) ==
  LET parsed == ParseURL(url)
      target == Pathname(parsed) \o Search(parsed)
      allowLen == longestMatchLength(target, rules.allow)
      disallowLen == longestMatchLength(target, rules.disallow)
  IN IF allowLen = 0 /\ disallowLen = 0 THEN TRUE
     ELSE allowLen >= disallowLen

(* Math.round(n / d) for n >= 0, d > 0                                     *)
RoundDiv(n, d) == (2 * n + d) \div (2 * d)

(* avgLatencyMs is 0 for undefined (both are falsy); adaptiveDelay is the  *)
(* argument of the caller, true by default when that is undefined;         *)
(* Math.round(avgLatencyMs * 1.4)                                          *)
getSuggestedDelayMs(baseDelayMs, rules, avgLatencyMs, adaptiveDelay) ==
  LET robotsDelay == IF rules.crawlDelayMs = NoCrawlDelay THEN 0 ELSE rules.crawlDelayMs
      adaptive == IF (adaptiveDelay = Undefined \/ adaptiveDelay) /\ avgLatencyMs # 0
                  THEN RoundDiv(avgLatencyMs * 14, 10)
                  ELSE 0
  IN Max2(Max2(baseDelayMs, robotsDelay), adaptive)

(* updateDomainPerformance: the entry after a fetch of latencyMs            *)
updateDomainPerformance(perf, domain, latencyMs) ==
  IF domain \notin DOMAIN perf
  THEN [d \in DOMAIN perf \cup {domain} |->
          IF d = domain THEN [avgLatencyMs |-> latencyMs, samples |-> 1] ELSE perf[d]]
  ELSE LET existing == perf[domain]
           nextSamples == Min2(SampleCap, existing.samples + 1)
           nextAvg == RoundDiv(existing.avgLatencyMs * existing.samples + latencyMs,
                               existing.samples + 1)
       IN [perf EXCEPT ![domain] = [avgLatencyMs |-> nextAvg, samples |-> nextSamples]]

(* Map.set                                                                 *)
MapSet(map, key, value) ==
  [k \in DOMAIN map \cup {key} |-> IF k = key THEN value ELSE map[k]]

(* ------------------------------- store --------------------------------- *)
hash(input) == <<"sha256", input>>
makeId(seed, t) == hash(<<seed, t>>)
stableId(seed) == hash(seed)

(* the index of the row with this id, 0 when there is none                *)
RowIndex(table, id) ==
  IF \E i \in 1..Len(table) : table[i].id = id
  THEN CHOOSE i \in 1..Len(table) : table[i].id = id
  ELSE 0

(* INSERT INTO crawl_jobs: a second row with the same primary key throws   *)
createCrawlJobId(seedUrls, t) == makeId(seedUrls, t)

createCrawlJobThrows(jobs, seedUrls, t) ==
  RowIndex(jobs, createCrawlJobId(seedUrls, t)) # 0

createCrawlJob(jobs, seedUrls, options, t) ==
  Append(jobs, [id |-> createCrawlJobId(seedUrls, t),
                status |-> "pending",
                seed_url_json |-> seedUrls,
                created_at |-> t,
                finished_at |-> NoTime,
                options_json |-> options])

setCrawlJobStatus(jobs, jobId, status, t) ==
  LET finishedAt == IF status = "finished" \/ status = "failed" THEN t ELSE NoTime
  IN [i \in 1..Len(jobs) |->
        IF jobs[i].id = jobId
        THEN [jobs[i] EXCEPT !.status = status, !.finished_at = finishedAt]
        ELSE jobs[i]]

(* mutant: a plain INSERT into a table without the unique index            *)
enqueueUrlPlainInsert(queue, jobId, url, depth, priority, t) ==
  Append(queue, [id |-> stableId(<<jobId, url>>), job_id |-> jobId, url |-> url,
                 depth |-> depth, priority |-> priority, next_fetch_at |-> t,
                 domain |-> ParseURL(url).host, status |-> "pending",
                 retries |-> 0, last_error |-> Null])

(* mutant: INSERT OR REPLACE, the existing row is written anew             *)
enqueueUrlReplace(queue, jobId, url, depth, priority, t) ==
  LET id == stableId(<<jobId, url>>)
      row == [id |-> id, job_id |-> jobId, url |-> url, depth |-> depth,
              priority |-> priority, next_fetch_at |-> t, domain |-> ParseURL(url).host,
              status |-> "pending", retries |-> 0, last_error |-> Null]
  IN IF \E i \in 1..Len(queue) : queue[i].id = id
     THEN [i \in 1..Len(queue) |-> IF queue[i].id = id THEN row ELSE queue[i]]
     ELSE Append(queue, row)

(* INSERT OR IGNORE: ignored when the primary key or the unique index      *)
(* idx_crawl_queue_job_url (job_id, url) already has the row               *)
enqueueUrl(queue, jobId, url, depth, priority, t) ==
  LET id == stableId(<<jobId, url>>)
  IN IF \E i \in 1..Len(queue) :
          queue[i].id = id \/ (queue[i].job_id = jobId /\ queue[i].url = url)
     THEN queue
     ELSE Append(queue, [id |-> id, job_id |-> jobId, url |-> url, depth |-> depth,
                         priority |-> priority, next_fetch_at |-> t,
                         domain |-> ParseURL(url).host, status |-> "pending",
                         retries |-> 0, last_error |-> Null])

(* ORDER BY priority DESC, depth ASC, next_fetch_at ASC                    *)
OrderedBefore(a, b) ==
  \/ a.priority > b.priority
  \/ a.priority = b.priority /\ a.depth < b.depth
  \/ a.priority = b.priority /\ a.depth = b.depth /\ a.next_fetch_at < b.next_fetch_at

(* mutant: the SELECT without next_fetch_at <= now                         *)
claimSelectableIgnoringDue(queue, jobId, t) ==
  LET cand == {i \in 1..Len(queue) : queue[i].job_id = jobId /\ queue[i].status = "pending"}
  IN {i \in cand : \A j \in cand : ~OrderedBefore(queue[j], queue[i])}

(* mutant: the SELECT without job_id = ?                                   *)
claimSelectableAnyJob(queue, jobId, t) ==
  LET due == {i \in 1..Len(queue) :
                queue[i].status = "pending" /\ queue[i].next_fetch_at <= t}
  IN {i \in due : \A j \in due : ~OrderedBefore(queue[j], queue[i])}

(* mutant: the SELECT reclaims rows left in processing                     *)
claimSelectableReclaiming(queue, jobId, t) ==
  LET due == {i \in 1..Len(queue) :
                queue[i].job_id = jobId /\ queue[i].status \in {"pending", "processing"}
                /\ queue[i].next_fetch_at <= t}
  IN {i \in due : \A j \in due : ~OrderedBefore(queue[j], queue[i])}

(* the rows the SELECT of claimNextQueueItem may return: LIMIT 1 of the    *)
(* ordered result, any of the rows that tie for first                      *)
claimSelectable(queue, jobId, t) ==
  LET due == {i \in 1..Len(queue) :
                queue[i].job_id = jobId /\ queue[i].status = "pending"
                /\ queue[i].next_fetch_at <= t}
  IN {i \in due : \A j \in due : ~OrderedBefore(queue[j], queue[i])}

UpdateStatus(queue, id, status) ==
  [i \in 1..Len(queue) |->
     IF queue[i].id = id THEN [queue[i] EXCEPT !.status = status] ELSE queue[i]]

completeQueueItem(queue, id) == UpdateStatus(queue, id, "done")

(* mutant: the backoff computed from the retries read, not the new count   *)
failQueueItemOldRetries(queue, id, error, retryDelayMs, t) ==
  LET k == RowIndex(queue, id)
      retries == (IF k = 0 THEN 0 ELSE queue[k].retries) + 1
  IN [i \in 1..Len(queue) |->
        IF queue[i].id # id THEN queue[i]
        ELSE IF retries >= MaxRetries
             THEN [queue[i] EXCEPT !.status = "failed", !.retries = retries,
                                   !.last_error = error]
             ELSE [queue[i] EXCEPT !.status = "pending", !.retries = retries,
                                   !.last_error = error,
                                   !.next_fetch_at = t + retryDelayMs * (retries - 1)]]

(* mutant: retries > 3 instead of retries >= 3                             *)
failQueueItemOneMore(queue, id, error, retryDelayMs, t) ==
  LET k == RowIndex(queue, id)
      retries == (IF k = 0 THEN 0 ELSE queue[k].retries) + 1
  IN [i \in 1..Len(queue) |->
        IF queue[i].id # id THEN queue[i]
        ELSE IF retries > MaxRetries
             THEN [queue[i] EXCEPT !.status = "failed", !.retries = retries,
                                   !.last_error = error]
             ELSE [queue[i] EXCEPT !.status = "pending", !.retries = retries,
                                   !.last_error = error,
                                   !.next_fetch_at = t + retryDelayMs * retries]]

failQueueItem(queue, id, error, retryDelayMs, t) ==
  LET k == RowIndex(queue, id)
      retries == (IF k = 0 THEN 0 ELSE queue[k].retries) + 1
  IN [i \in 1..Len(queue) |->
        IF queue[i].id # id THEN queue[i]
        ELSE IF retries >= MaxRetries
             THEN [queue[i] EXCEPT !.status = "failed", !.retries = retries,
                                   !.last_error = error]
             ELSE [queue[i] EXCEPT !.status = "pending", !.retries = retries,
                                   !.last_error = error,
                                   !.next_fetch_at = t + retryDelayMs * retries]]

CountStatus(queue, jobId, status) ==
  Cardinality({i \in 1..Len(queue) : queue[i].job_id = jobId /\ queue[i].status = status})

getCrawlJobStatus(jobs, queue, jobId) ==
  IF RowIndex(jobs, jobId) = 0 THEN Undefined
  ELSE [id |-> jobId,
        status |-> jobs[RowIndex(jobs, jobId)].status,
        stats |-> [queued |-> CountStatus(queue, jobId, "pending"),
                   processing |-> CountStatus(queue, jobId, "processing"),
                   done |-> CountStatus(queue, jobId, "done"),
                   failed |-> CountStatus(queue, jobId, "failed")]]

(* WHERE status IN ('pending','running') ORDER BY created_at ASC: the      *)
(* orders the query may return (rows of equal created_at in either order)  *)
RECURSIVE Orderings(_)
Orderings(S) ==
  IF S = {} THEN {<<>>}
  ELSE UNION {{<<x>> \o p : p \in Orderings(S \ {x})} : x \in S}

(* mutant: the listing without the status filter                           *)
listAllCrawlJobs(jobs) ==
  LET active == 1..Len(jobs)
  IN {[k \in 1..Len(p) |-> jobs[p[k]]] :
        p \in {q \in Orderings(active) :
                 \A a, b \in 1..Len(q) : a < b => jobs[q[a]].created_at <= jobs[q[b]].created_at}}

listActiveCrawlJobs(jobs) ==
  LET active == {i \in 1..Len(jobs) : jobs[i].status \in {"pending", "running"}}
  IN {[k \in 1..Len(p) |-> jobs[p[k]]] :
        p \in {q \in Orderings(active) :
                 \A a, b \in 1..Len(q) : a < b => jobs[q[a]].created_at <= jobs[q[b]].created_at}}

(* a page id or content hash that is falsy (the empty string)              *)
NoId == <<>>

(* JSON.stringify of a page: a key whose value is undefined is dropped;    *)
(* canonicalUrl is the key of an extracted page that may be undefined       *)
JsonStringify(page) ==
  IF "canonicalUrl" \in DOMAIN page /\ page.canonicalUrl = Undefined
  THEN [k \in DOMAIN page \ {"canonicalUrl"} |-> page[k]]
  ELSE page

(* JSON.parse of a stored page_json                                        *)
JsonParse(json) == json

(* mutant: a plain INSERT into a table without the primary key            *)
savePageAppend(pgs, page, t) ==
  LET pageId == IF page.id = NoId THEN makeId(page.url, t) ELSE page.id
  IN Append(pgs, [id |-> pageId, url |-> page.url, fetched_at |-> page.fetchedAt,
                  content_hash |-> page.contentHash,
                  page_json |-> JsonStringify([page EXCEPT !.id = pageId])])

(* pages: INSERT OR REPLACE by id = page.id || makeId(page.url); the id of *)
(* an extracted page is buildId(url:contentHash:now).  page_json is the    *)
(* page with the id filled in.  contentHash stands for the hash of title   *)
(* and key paragraphs, which page.contentHash || hash(...) yields either way *)
savePage(pgs, page, t) ==
  LET pageId == IF page.id = NoId THEN makeId(page.url, t) ELSE page.id
      row == [id |-> pageId, url |-> page.url, fetched_at |-> page.fetchedAt,
              content_hash |-> page.contentHash,
              page_json |-> JsonStringify([page EXCEPT !.id = pageId])]
  IN IF RowIndex(pgs, pageId) # 0
     THEN [i \in 1..Len(pgs) |-> IF pgs[i].id = pageId THEN row ELSE pgs[i]]
     ELSE Append(pgs, row)

(* SELECT page_json FROM pages WHERE id = ?                                *)
getPageById(pgs, id) ==
  IF RowIndex(pgs, id) = 0 THEN Undefined ELSE JsonParse(pgs[RowIndex(pgs, id)].page_json)

(* links: INSERT OR REPLACE of every link of the page,                     *)
(* PRIMARY KEY(from_page_id, to_url)                                       *)
saveLinks(lnks, page) ==
  lnks \cup {[from_page_id |-> page.id, to_url |-> page.links[i]] : i \in 1..Len(page.links)}

(* ORDER BY fetched_at DESC LIMIT 1: the rows the query may return         *)
getLatestPageByUrl(pgs, url) ==
  {i \in 1..Len(pgs) :
     /\ pgs[i].url = url
     /\ \A j \in 1..Len(pgs) : pgs[j].url = url => pgs[j].fetched_at <= pgs[i].fetched_at}

(* SELECT p.page_json FROM crawl_queue q INNER JOIN pages p ON p.url = q.url *)
(* WHERE q.job_id = ? AND q.status = 'done' ORDER BY p.fetched_at DESC      *)
(* LIMIT ?: the results the query may return, one pages row per joined pair *)
(* (rows of equal fetched_at in either order)                               *)
getCrawlPages(pgs, queue, jobId, limit) ==
  LET joined == {<<q, p>> \in (1..Len(queue)) \X (1..Len(pgs)) :
                   /\ queue[q].job_id = jobId /\ queue[q].status = "done"
                   /\ pgs[p].url = queue[q].url}
      ordered == {o \in Orderings(joined) :
                    \A a, b \in 1..Len(o) :
                      a < b => pgs[o[a][2]].fetched_at >= pgs[o[b][2]].fetched_at}
  IN {[k \in 1..Min2(limit, Len(o)) |-> pgs[o[k][2]]] : o \in ordered}

(* CrawlerService.next                                                     *)
next(pgs, queue, jobId, limit) == getCrawlPages(pgs, queue, jobId, limit)

(* extractPageFromHtml: what the crawl step uses of the extracted page;    *)
(* canonicalUrl is undefined for a page without <link rel='canonical'>     *)
ExtractedPage(url, canonicalUrl, contentHash, pageLinks, t) ==
  [id |-> hash(<<url, contentHash, t>>), url |-> url, canonicalUrl |-> canonicalUrl,
   contentHash |-> contentHash, fetchedAt |-> t, links |-> pageLinks]

(* ------------------------------ extractor ------------------------------ *)
(* An HTML document is the list of its elements that match                 *)
(* "a[href], button, input[type='submit'], form, input, textarea, select", *)
(* in document order.  An attribute that is absent is the empty string,    *)
(* which the code treats alike; href is the attribute as a URL, NotAUrl    *)
(* when it is absent, empty or does not parse against the base.            *)
Node(tag, id, name, aria, class, type, href) ==
  [tag |-> tag, id |-> id, name |-> name, aria |-> aria, class |-> class, type |-> type,
   href |-> href]

(* buildSelector: #id, tag[name=], tag[aria-label=], tag.class, else       *)
(* tag:nth-of-type(index + 1); a selector is the list of its parts         *)
buildSelector(node, index) ==
  IF node.id # "" THEN <<"#", node.id>>
  ELSE IF node.name # "" THEN <<node.tag, "[name=", node.name>>
  ELSE IF node.aria # "" THEN <<node.tag, "[aria-label=", node.aria>>
  ELSE IF node.class # "" THEN <<node.tag, ".", node.class>>
  ELSE <<node.tag, ":nth-of-type", Max2(1, index + 1)>>

(* the action pushed for the node at index, if any: its id and type        *)
NodeActions(node, index) ==
  LET selector == buildSelector(node, index)
  IN IF node.tag = "a"
     THEN IF ParseURL(node.href) = Undefined THEN <<>>
          ELSE <<[id |-> hash(<<"nav", selector, ParseURL(node.href)>>), type |-> "navigate",
                  selector |-> selector]>>
     ELSE IF node.tag \in {"form", "button"} \/ (node.tag = "input" /\ node.type = "submit")
     THEN <<[id |-> hash(<<"submit", selector>>), type |-> "submit", selector |-> selector]>>
     ELSE IF node.tag = "select"
     THEN <<[id |-> hash(<<"select", selector>>), type |-> "select", selector |-> selector]>>
     ELSE IF node.tag \in {"input", "textarea"}
     THEN <<[id |-> hash(<<"fill", selector>>), type |-> "fill", selector |-> selector]>>
     ELSE <<>>

(* .slice(0, 150).forEach((node, index) => ...): the actions pushed for     *)
(* the nodes at index from..Len(nodes) - 1                                 *)
RECURSIVE PushActions(_, _)
PushActions(nodes, from) ==
  IF from >= Min2(NodeCap, Len(nodes)) THEN <<>>
  ELSE NodeActions(nodes[from + 1], from) \o PushActions(nodes, from + 1)

(* the Map dedup: the first action of every id, in insertion order          *)
RECURSIVE DedupById(_, _)
DedupById(actions, seen) ==
  IF actions = <<>> THEN <<>>
  ELSE IF Head(actions).id \in seen THEN DedupById(Tail(actions), seen)
  ELSE <<Head(actions)>> \o DedupById(Tail(actions), seen \cup {Head(actions).id})

(* mutant: the actions without the dedup by id                             *)
extractActionsNoDedup(baseUrl, html) ==
  SubSeq(PushActions(html, 0), 1, Min2(ActionCap, Len(PushActions(html, 0))))

extractActionsFromHtml(baseUrl, html) ==
  LET dedup == DedupById(PushActions(html, 0), {})
  IN SubSeq(dedup, 1, Min2(ActionCap, Len(dedup)))

(* --------------------------- model inputs ------------------------------ *)
RootUrl == Url("https:", "example.com", "", <<>>, <<>>, "")
DocsUrl == Url("https:", "example.com", "", <<"docs">>, <<>>, "")
DocsUrlRaw == Url("https:", "Example.com", "443", <<"docs", "">>, <<>>, "top")
GuideUrlRaw == Url("https:", "example.com", "", <<"docs", "guide">>,
                   <<[k |-> "utm_source", v |-> "x"]>>, "")
FtpUrl == Url("ftp:", "example.com", "", <<"docs">>, <<>>, "")
OtherUrl == Url("https:", "other.org", "", <<>>, <<>>, "")
PdfUrl == Url("https:", "example.com", "", <<"file.pdf">>, <<>>, "")
LoginUrl == Url("https:", "example.com", "", <<"login">>, <<>>, "")

SeedLists ==
  { <<RootUrl>>, <<FtpUrl, DocsUrlRaw, DocsUrl, RootUrl>>, <<FtpUrl, NotAUrl>> }

NoOptions == <<>>
OptionInputs ==
  { NoOptions,
    [maxPages |-> 1, maxDepth |-> 1, respectRobots |-> FALSE] }

(* a start whose seeds and links are partly out of scope                   *)
ScopedSeeds == <<PdfUrl, RootUrl>>
ScopedOptions ==
  [maxDepth |-> 1, respectRobots |-> FALSE, allowDomains |-> {"example.com", "other.org"},
   denyDomains |-> {"other.org"}]

LinkLists == { <<>>, <<DocsUrlRaw, OtherUrl, PdfUrl, LoginUrl, FtpUrl>> }
ContentHashes == {"h1", "h2"}
RedirectTargets == {DocsUrl}
ErrorMessages == {"Static fetch failed: 500"}
StoreErrors == {"database is locked"}

(* what parseRobots makes of the robots.txt an origin serves               *)
RobotsFile(allow, disallow, crawlDelayMs) ==
  [fetchedAt |-> NoTime, allow |-> allow, disallow |-> disallow,
   crawlDelayMs |-> crawlDelayMs, sitemaps |-> <<>>]
SlashRule == <<"/">>
DRule == <<"/", "d">>
DocsRule == <<"/", "d", "o", "c", "s">>
GuideRule == <<"/", "d", "o", "c", "s", "/", "g", "u", "i", "d", "e">>
CrawlDelayMs == 2000
DisallowDocs == RobotsFile(<<>>, <<DocsRule>>, CrawlDelayMs)
RobotsFiles ==
  { DisallowDocs,
    RobotsFile(<<>>, <<SlashRule>>, NoCrawlDelay),
    RobotsFile(<<DocsRule>>, <<SlashRule, DocsRule>>, NoCrawlDelay),
    RobotsFile(<<GuideRule, DocsRule>>, <<DRule>>, NoCrawlDelay),
    RobotsFile(<<DRule, SlashRule>>, <<GuideRule, DocsRule>>, NoCrawlDelay),
    RobotsFile(<<DocsRule>>, <<>>, NoCrawlDelay) }

(* the sitemaps an origin serves: an index that lists a sitemap and itself, *)
(* and a sitemap of pages; and a robots.txt with a Sitemap line            *)
SitemapA == Url("https:", "example.com", "", <<"sitemap-a.xml">>, <<>>, "")
SitemapRoot == Url("https:", "example.com", "", <<"sitemap.xml">>, <<>>, "")
SitemapResponse(ok, isSitemapIndex, locs) ==
  [ok |-> ok, isSitemapIndex |-> isSitemapIndex, locs |-> locs]
NoWeb == [u \in {} |-> SitemapResponse(FALSE, FALSE, <<>>)]
SiteWeb ==
  [u \in {SitemapRoot, SitemapA} |->
     IF u = SitemapRoot THEN SitemapResponse(TRUE, TRUE, <<SitemapA, SitemapRoot>>)
     ELSE SitemapResponse(TRUE, FALSE, <<DocsUrlRaw, PdfUrl, NotAUrl, GuideUrlRaw, DocsUrl>>)]
SitemapRobots == [DisallowDocs EXCEPT !.sitemaps = <<SitemapA>>]
(* seedFromSitemaps and maxSitemapUrls as a caller may pass them; a key    *)
(* that is missing is undefined                                            *)
SeedingOptions == {<<>>, [seedFromSitemaps |-> TRUE], [seedFromSitemaps |-> TRUE, maxSitemapUrls |-> 1]}
NoThrow == 1000000
InsertThrowsAfter == {0, 1, NoThrow}

Workers == {"w1", "w2"}
Procs == {"p1", "p2"}

(* ------------------------------- state --------------------------------- *)
VARIABLES
  now,              \* Date.now()
  crawl_jobs,       \* table crawl_jobs, in rowid order
  crawl_queue,      \* table crawl_queue, in rowid order
  pages,            \* table pages, in rowid order
  links,            \* table links
  initializedJobs,  \* CrawlerService.initializedJobs of each process
  deployment,       \* how the crawler is run; fixed over a behaviour
  pc,               \* where each worker tick stands
  jobsList,         \* processActiveJobsOnce: the jobs still to be stepped
  statusSnap,       \* processJobOnce: const status
  item,             \* processJobOnce: const item
  fetchCount,       \* history: openStatic calls per queue row id
  fetchedOk,        \* history: openStatic calls that returned a page, per queue row id
  sitemapCache,     \* CrawlerService.sitemapCache of each process
  sitemapWeb,       \* the sitemaps the origins serve; fixed over a behaviour
  initRuns,         \* history: runs of initializeJobIfNeeded past its first line, per process and job
  initLoop,         \* initializeJobIfNeeded: where the call of each tick stands
  startLog,         \* history: the calls of start and their outcome
  robotsTxt,        \* environment: the rules in the robots.txt the origins serve
  robotsCache,      \* RobotsManager.cache of each process
  domainLastFetch,  \* CrawlerService.domainLastFetch of each process
  domainPerformance,\* CrawlerService.domainPerformance of each process
  startedAt,        \* processJobOnce: const startedAt
  wakeAt,           \* processJobOnce: when the timer of delay(waitMs) is due
  lastFetchEnd,     \* history: when the last openStatic of a host ended, per process
  lastCall          \* history: the last call of a store or utility function made
                    \* from outside the crawl engine, with what it returned

vars == <<now, crawl_jobs, crawl_queue, pages, links, initializedJobs, deployment, pc, jobsList,
          statusSnap, item, fetchCount, fetchedOk, sitemapCache, sitemapWeb, initRuns, initLoop,
          startLog, robotsTxt, robotsCache,
          domainLastFetch, domainPerformance, startedAt, wakeAt, lastFetchEnd, lastCall>>

engine == <<robotsTxt, robotsCache, domainLastFetch, domainPerformance, startedAt, wakeAt,
            lastFetchEnd>>

store == <<crawl_jobs, crawl_queue, pages, links>>

seeding == <<sitemapCache, sitemapWeb, initRuns, initLoop>>

NoItem == [id |-> <<>>]
NoStats == [queued |-> 0, processing |-> 0, done |-> 0, failed |-> 0]
NoJobId == <<>>
NoCall == [op |-> "none", n |-> 0]

(* the code of a tick between two awaits runs to completion: a tick whose  *)
(* pc is one of these holds the JavaScript thread of its process           *)
SyncPcs == {"snap", "claim", "selected", "claimed", "catch", "init", "initLookup"}

(* Date.now() when the model's clock shows 0: the value matters only in   *)
(* that it is larger than every delay                                      *)
EpochMs == 1000000000

(* "ticks": one crawler process whose setInterval ticks may overlap, one    *)
(* job; "jobs": one crawler process, one tick at a time, several jobs;     *)
(* "processes": two crawler processes on the same data/webx.sqlite, one    *)
(* job.  The last two are explored up to a bounded number of fetches and   *)
(* over a shorter stretch of time.  "failing": one crawler process and a   *)
(* job most of whose seeds have already failed three times.  "pages": one  *)
(* crawler process, one tick at a time, one job, whose fetches may be      *)
(* redirected, may return either content and may fail inside savePage      *)
(* after the pages row was written; elsewhere a fetch ends at the URL it   *)
(* asked for, with one content.  The jobs of "jobs" are started with the   *)
(* default options; those of "pages" may also have seeds that are out of  *)
(* scope and options with allowDomains and denyDomains.  "overlap": one    *)
(* crawler process whose ticks may overlap, several jobs started with the  *)
(* default options, and a store whose INSERT into crawl_queue may throw    *)
(* during link discovery.                                                  *)
Process(w) == IF deployment = "processes" /\ w = "w2" THEN "p2" ELSE "p1"
WorkerRuns(w) == deployment \in {"ticks", "processes", "overlap", "sitemap"} \/ w = "w1"
StartLimit ==
  CASE deployment \in {"jobs", "overlap"} -> MaxStarts
    [] deployment = "failing" -> 2
    [] OTHER -> 1
ClockLimit ==
  CASE deployment = "ticks" -> MaxNow
    [] deployment \in {"failing", "resume"} -> MaxNow + MaxNowShort
    [] OTHER -> MaxNowShort

StartOptions ==
  CASE deployment \in {"jobs", "overlap"} -> {NoOptions}
    [] deployment = "pages" -> OptionInputs \cup {ScopedOptions}
    [] OTHER -> OptionInputs
StartSeeds ==
  CASE deployment = "pages" -> SeedLists \cup {ScopedSeeds}
    [] deployment = "sitemap" -> {<<RootUrl>>, <<OtherUrl, RootUrl>>}
    [] OTHER -> SeedLists
ServedRobots ==
  CASE deployment = "robots" -> RobotsFiles
    [] deployment = "sitemap" -> {DisallowDocs, SitemapRobots}
    [] OTHER -> {DisallowDocs}
ServedSitemaps ==
  CASE deployment = "sitemap" -> {NoWeb, SiteWeb}
    [] deployment \in {"restart", "resume"} -> {SiteWeb}
    [] OTHER -> {NoWeb}
SeedingThrows == IF deployment = "sitemap" THEN InsertThrowsAfter ELSE {NoThrow}
SeedingPassed ==
  IF deployment = "sitemap" THEN SeedingOptions ELSE {<<>>, [seedFromSitemaps |-> TRUE]}
FetchHashes == IF deployment = "pages" THEN ContentHashes ELSE {"h1"}
FetchRedirects == IF deployment = "pages" THEN RedirectTargets ELSE {}
InsertOutcomes == IF deployment = "pages" THEN BOOLEAN ELSE {FALSE}

RECURSIVE SumOver(_, _)
SumOver(f, S) ==
  IF S = {} THEN 0
  ELSE LET x == CHOOSE y \in S : TRUE IN f[x] + SumOver(f, S \ {x})

(* the failing job: seeds already failed for good, and seeds two failures in *)
FailedAtStart == FailedJobThreshold - 1
PendingAtStart == MaxRetries
FailingOptions == [maxDepth |-> 0]

FetchLimit ==
  CASE deployment = "failing" ->
         MaxRetries * FailedAtStart + (MaxRetries - 1) * PendingAtStart + PendingAtStart
    [] deployment = "resume" -> MaxRetries + (MaxRetries - 1) + MaxFetches + 1
    [] OTHER -> MaxFetches + 1

(* the failing job is followed until its fetches are used up or a second   *)
(* job is started                                                          *)
FetchBudgetLeft ==
  /\ deployment \notin {"ticks", "live"} => SumOver(fetchCount, DOMAIN fetchCount) < FetchLimit
  /\ deployment = "failing" => Len(startLog) = 1

CpuFree(w) == \A v \in Workers \ {w} : Process(v) = Process(w) => pc[v] \notin SyncPcs

InitCommon ==
  /\ now = 0
  /\ crawl_jobs = <<>>
  /\ crawl_queue = <<>>
  /\ pages = <<>>
  /\ links = {}
  /\ initializedJobs = [p \in Procs |-> {}]
  /\ pc = [w \in Workers |-> "idle"]
  /\ jobsList = [w \in Workers |-> <<>>]
  /\ statusSnap = [w \in Workers |-> NoStats]
  /\ item = [w \in Workers |-> NoItem]
  /\ fetchCount = <<>>
  /\ fetchedOk = <<>>
  /\ startLog = <<>>
  /\ lastCall = NoCall

NoLoop == [origins |-> <<>>, rules |-> Undefined, passed |-> <<>>, calledAt |-> NoTime,
           caught |-> 0]

(* an empty sitemapCache in every process; the origins serve one of the    *)
(* sitemap sets                                                            *)
InitSeeding ==
  /\ sitemapCache = [p \in Procs |-> <<>>]
  /\ sitemapWeb \in ServedSitemaps
  /\ initRuns = [p \in Procs |-> <<>>]
  /\ initLoop = [w \in Workers |-> NoLoop]

(* a new RobotsManager and CrawlerService in every process; the origins    *)
(* serve one of the robots.txt files                                       *)
InitEngine ==
  /\ robotsTxt \in ServedRobots
  /\ robotsCache = [p \in Procs |-> <<>>]
  /\ domainLastFetch = [p \in Procs |-> <<>>]
  /\ domainPerformance = [p \in Procs |-> <<>>]
  /\ startedAt = [w \in Workers |-> NoTime]
  /\ wakeAt = [w \in Workers |-> NoTime]
  /\ lastFetchEnd = [p \in Procs |-> <<>>]
  /\ InitSeeding

Init == InitCommon /\ deployment = "ticks" /\ InitEngine

InitJobs == InitCommon /\ deployment = "jobs" /\ InitEngine

InitMP == InitCommon /\ deployment = "processes" /\ InitEngine

InitPages == InitCommon /\ deployment = "pages" /\ InitEngine

InitRobots == InitCommon /\ deployment = "robots" /\ InitEngine

(* ------------------------------ actions -------------------------------- *)
(* time passes while every tick is idle or awaiting; a synchronous stretch *)
(* of a tick is shorter than a clock step                                  *)
Advance ==
  /\ now + ClockStep <= ClockLimit
  /\ \A w \in Workers : pc[w] \notin SyncPcs
  /\ now' = now + ClockStep
  /\ UNCHANGED engine
  /\ UNCHANGED <<crawl_jobs, crawl_queue, pages, links, initializedJobs, deployment, seeding, lastCall, pc, jobsList,
                 statusSnap, item, fetchCount, fetchedOk, startLog>>

(* seedUrls.map(normalizeCrawlUrl).filter(Boolean), then [...new Set()]    *)
RECURSIVE NormalizeAll(_)
NormalizeAll(seedUrls) ==
  IF seedUrls = <<>> THEN <<>>
  ELSE (IF normalizeCrawlUrl(Head(seedUrls)) = Undefined THEN <<>>
        ELSE <<normalizeCrawlUrl(Head(seedUrls))>>) \o NormalizeAll(Tail(seedUrls))

(* mutant: the seed priority of the first crawler, 100 - idx               *)
SeedPriorityFrom100(idx) == 100 - idx

(* normalizedSeeds.forEach((url, idx) => enqueueUrl(jobId, url, 0, 140 - idx)) *)
SeedPriority(idx) == SeedPriorityBase - idx

RECURSIVE EnqueueSeeds(_, _, _, _, _)
EnqueueSeeds(queue, jobId, normalizedSeeds, idx, t) ==
  IF idx >= Len(normalizedSeeds) THEN queue
  ELSE EnqueueSeeds(enqueueUrl(queue, jobId, normalizedSeeds[idx + 1], 0, SeedPriority(idx), t),
                    jobId, normalizedSeeds, idx + 1, t)

(* JSON.stringify(runtime): keys whose value is undefined are dropped      *)
StoredOptions(runtime) ==
  [k \in {"maxPages", "maxDepth", "mode", "allowDomains", "denyDomains", "respectRobots",
          "perDomainDelayMs"} |-> runtime[k]]

RegisterRows(fc, queue) ==
  [id \in {queue[i].id : i \in 1..Len(queue)} |-> IF id \in DOMAIN fc THEN fc[id] ELSE 0]

(* mutant: start without the normalizedSeeds.length === 0 check            *)
StartWithoutSeedCheck(seedUrls, options) ==
  LET runtime == toRuntimeOptions(options)
      normalizedSeeds == Dedupe(NormalizeAll(seedUrls))
      jobId == createCrawlJobId(normalizedSeeds, now)
      call == [seedUrls |-> seedUrls, options |-> options, at |-> now]
  IN /\ Len(startLog) < StartLimit
     /\ IF createCrawlJobThrows(crawl_jobs, normalizedSeeds, now)
        THEN /\ startLog' = Append(startLog, [call |-> call, result |-> "SqliteError",
                                              jobId |-> NoJobId])
             /\ UNCHANGED <<crawl_jobs, crawl_queue, fetchCount, fetchedOk>>
        ELSE /\ crawl_jobs' = setCrawlJobStatus(
                                createCrawlJob(crawl_jobs, normalizedSeeds,
                                               StoredOptions(runtime), now),
                                jobId, "running", now)
             /\ crawl_queue' = EnqueueSeeds(crawl_queue, jobId, normalizedSeeds, 0, now)
             /\ fetchCount' = RegisterRows(fetchCount, crawl_queue')
             /\ fetchedOk' = RegisterRows(fetchedOk, crawl_queue')
             /\ startLog' = Append(startLog, [call |-> call, result |-> "ok", jobId |-> jobId])
     /\ UNCHANGED engine
     /\ UNCHANGED <<now, pages, links, initializedJobs, deployment, seeding, lastCall, pc, jobsList, statusSnap, item>>

Start(seedUrls, options) ==
  LET runtime == toRuntimeOptions(options)
      normalizedSeeds == Dedupe(NormalizeAll(seedUrls))
      jobId == createCrawlJobId(normalizedSeeds, now)
      call == [seedUrls |-> seedUrls, options |-> options, at |-> now]
  IN /\ Len(startLog) < StartLimit
     /\ IF normalizedSeeds = <<>>
        THEN /\ startLog' = Append(startLog, [call |-> call, result |-> "NoValidSeeds",
                                              jobId |-> NoJobId])
             /\ UNCHANGED <<crawl_jobs, crawl_queue, fetchCount, fetchedOk>>
        ELSE IF createCrawlJobThrows(crawl_jobs, normalizedSeeds, now)
        THEN /\ startLog' = Append(startLog, [call |-> call, result |-> "SqliteError",
                                              jobId |-> NoJobId])
             /\ UNCHANGED <<crawl_jobs, crawl_queue, fetchCount, fetchedOk>>
        ELSE /\ crawl_jobs' = setCrawlJobStatus(
                                createCrawlJob(crawl_jobs, normalizedSeeds,
                                               StoredOptions(runtime), now),
                                jobId, "running", now)
             /\ crawl_queue' = EnqueueSeeds(crawl_queue, jobId, normalizedSeeds, 0, now)
             /\ fetchCount' = RegisterRows(fetchCount, crawl_queue')
             /\ fetchedOk' = RegisterRows(fetchedOk, crawl_queue')
             /\ startLog' = Append(startLog, [call |-> call, result |-> "ok", jobId |-> jobId])
     /\ UNCHANGED engine
     /\ UNCHANGED <<now, pages, links, initializedJobs, deployment, seeding, lastCall, pc, jobsList, statusSnap, item>>

(* CrawlJobRecord as processJobOnce uses it                                *)
JobRecord(row) == [id |-> row.id, seedUrls |-> row.seed_url_json, options |-> row.options_json]

TickStart(w) ==
  /\ pc[w] = "idle"
  /\ WorkerRuns(w)
  /\ CpuFree(w)
  /\ \E jobs \in listActiveCrawlJobs(crawl_jobs) :
       /\ jobs # <<>>
       /\ jobsList' = [jobsList EXCEPT ![w] = [k \in 1..Len(jobs) |-> JobRecord(jobs[k])]]
  /\ pc' = [pc EXCEPT ![w] = "snap"]
  /\ UNCHANGED engine
  /\ UNCHANGED <<now, crawl_jobs, crawl_queue, pages, links, initializedJobs, deployment, seeding, lastCall, statusSnap,
                 item, fetchCount, fetchedOk, startLog>>

(* processJobOnce returns; the for loop of processActiveJobsOnce goes on   *)
EndJobStep(w) ==
  /\ jobsList' = [jobsList EXCEPT ![w] = Tail(@)]
  /\ pc' = [pc EXCEPT ![w] = IF Len(jobsList[w]) > 1 THEN "snap" ELSE "idle"]
  /\ statusSnap' = [statusSnap EXCEPT ![w] = NoStats]
  /\ item' = [item EXCEPT ![w] = NoItem]

job(w) == Head(jobsList[w])
options(w) == toRuntimeOptions(job(w).options)

(* mutant: done > maxPages instead of done >= maxPages                     *)
MaxPagesExceeded(status, opts) == status.stats.done > opts.maxPages

MaxPagesReached(status, opts) == status.stats.done >= opts.maxPages

(* mutant: initializeJobIfNeeded without this.initializedJobs.add(job.id)  *)
MarkInitializedNever(set, jobId) == set

(* this.initializedJobs.add(job.id)                                        *)
MarkInitialized(set, jobId) == set \cup {jobId}

(* history: one more run of initializeJobIfNeeded past its first line      *)
CountRun(runs, p, jobId) ==
  [runs EXCEPT ![p] = MapSet(@, jobId, IF jobId \in DOMAIN @ THEN @[jobId] + 1 ELSE 1)]

(* processJobOnce up to the claim: status, maxPages check, initializeJobIfNeeded *)
Snapshot(w) ==
  LET status == getCrawlJobStatus(crawl_jobs, crawl_queue, job(w).id)
  IN /\ pc[w] = "snap"
     /\ CpuFree(w)
     /\ IF status = Undefined
        THEN EndJobStep(w) /\ UNCHANGED <<crawl_jobs, initializedJobs, initRuns>>
        ELSE IF MaxPagesReached(status, options(w))
        THEN /\ crawl_jobs' = setCrawlJobStatus(crawl_jobs, job(w).id, "finished", now)
             /\ EndJobStep(w)
             /\ UNCHANGED <<initializedJobs, initRuns>>
        ELSE /\ initializedJobs' = [initializedJobs EXCEPT ![Process(w)] =
                                      MarkInitialized(@, job(w).id)]
             /\ initRuns' = IF job(w).id \in initializedJobs[Process(w)] THEN initRuns
                            ELSE CountRun(initRuns, Process(w), job(w).id)
             /\ statusSnap' = [statusSnap EXCEPT ![w] = status.stats]
             /\ pc' = [pc EXCEPT ![w] = "claim"]
             /\ UNCHANGED <<crawl_jobs, jobsList, item>>
     /\ UNCHANGED engine
     /\ UNCHANGED <<now, crawl_queue, pages, links, deployment, sitemapCache, sitemapWeb, initLoop,
                    lastCall, fetchCount, fetchedOk, startLog>>

(* mutant: the drain test without the processing count                     *)
QueueDrainedIgnoringProcessing(stats) == stats.queued = 0

(* mutant: a job with a failed row never counts as drained                 *)
QueueDrainedNoFailures(stats) == stats.queued = 0 /\ stats.processing = 0 /\ stats.failed = 0

QueueDrained(stats) == stats.queued = 0 /\ stats.processing = 0

(* claimNextQueueItem finds no row                                         *)
ClaimNone(w) ==
  /\ pc[w] = "claim"
  /\ CpuFree(w)
  /\ claimSelectable(crawl_queue, job(w).id, now) = {}
  /\ crawl_jobs' = IF QueueDrained(statusSnap[w])
                   THEN setCrawlJobStatus(crawl_jobs, job(w).id, "finished", now)
                   ELSE crawl_jobs
  /\ EndJobStep(w)
  /\ UNCHANGED engine
  /\ UNCHANGED <<now, crawl_queue, pages, links, initializedJobs, deployment, seeding, lastCall, fetchCount, fetchedOk, startLog>>

(* claimNextQueueItem: the SELECT                                          *)
ClaimSelect(w) ==
  /\ pc[w] = "claim"
  /\ CpuFree(w)
  /\ FetchBudgetLeft
  /\ \E i \in claimSelectable(crawl_queue, job(w).id, now) :
       item' = [item EXCEPT ![w] = crawl_queue[i]]
  /\ pc' = [pc EXCEPT ![w] = "selected"]
  /\ UNCHANGED engine
  /\ UNCHANGED <<now, crawl_jobs, crawl_queue, pages, links, initializedJobs, deployment, seeding, lastCall, jobsList,
                 statusSnap, fetchCount, fetchedOk, startLog>>

(* claimNextQueueItem: the UPDATE, and the row it returns                  *)
ClaimUpdate(w) ==
  /\ pc[w] = "selected"
  /\ CpuFree(w)
  /\ crawl_queue' = UpdateStatus(crawl_queue, item[w].id, "processing")
  /\ item' = [item EXCEPT ![w] = [@ EXCEPT !.status = "processing"]]
  /\ pc' = [pc EXCEPT ![w] = "claimed"]
  /\ UNCHANGED engine
  /\ UNCHANGED <<now, crawl_jobs, pages, links, initializedJobs, deployment, seeding, lastCall, jobsList, statusSnap,
                 fetchCount, fetchedOk, startLog>>

(* the item is completed without a fetch                                   *)
CompleteItem(w) ==
  /\ crawl_queue' = completeQueueItem(crawl_queue, item[w].id)
  /\ EndJobStep(w)
  /\ UNCHANGED <<fetchCount, fetchedOk, startedAt, wakeAt>>

(* const waitMs = Math.max(0, domainDelayMs - (now - lastFetch)), where     *)
(* lastFetch is 0 for a domain without an entry                            *)
WaitMs(w, rules) ==
  LET p == Process(w)
      domain == item[w].domain
      lastFetch == IF domain \in DOMAIN domainLastFetch[p] THEN domainLastFetch[p][domain]
                   ELSE 0 - EpochMs
      avgLatencyMs == IF domain \in DOMAIN domainPerformance[p]
                      THEN domainPerformance[p][domain].avgLatencyMs ELSE 0
      domainDelayMs == getSuggestedDelayMs(options(w).perDomainDelayMs, rules, avgLatencyMs,
                                           options(w).adaptiveDelay)
  IN Max2(0, domainDelayMs - (now - lastFetch))

(* const startedAt = Date.now(); openStatic(normalizedUrl, options.mode) is called *)
StartFetch(w) ==
  /\ pc' = [pc EXCEPT ![w] = "fetch"]
  /\ startedAt' = [startedAt EXCEPT ![w] = now]
  /\ fetchCount' = [fetchCount EXCEPT ![item[w].id] = @ + 1]
  /\ UNCHANGED fetchedOk

(* the politeness wait: await delay(waitMs) when waitMs > 0, else the fetch *)
PolitenessWait(w, rules) ==
  /\ IF WaitMs(w, rules) > 0
     THEN /\ pc' = [pc EXCEPT ![w] = "delay"]
          /\ wakeAt' = [wakeAt EXCEPT ![w] = now + WaitMs(w, rules)]
          /\ UNCHANGED <<fetchCount, fetchedOk, startedAt>>
     ELSE /\ StartFetch(w)
          /\ UNCHANGED wakeAt
  /\ UNCHANGED <<crawl_queue, jobsList, statusSnap, item>>

(* mutant: getRules without its cache                                      *)
CachedRulesNever(w, origin) == FALSE

(* getRules: cached && now - cached.fetchedAt < 6 * 60 * 60 * 1000         *)
CachedRules(w, origin) ==
  /\ origin \in DOMAIN robotsCache[Process(w)]
  /\ now - robotsCache[Process(w)][origin].fetchedAt < RobotsTtlMs

(* mutant: the step without the robots check                               *)
RobotsNeverBlocked(url, rules) == FALSE

(* if (!this.robotsManager.canCrawl(normalizedUrl, robotsRules))           *)
RobotsBlocked(url, rules) == ~canCrawl(url, rules)

(* processJobOnce after the claim, up to the first await that waits        *)
Dispatch(w) ==
  LET normalizedUrl == normalizeCrawlUrl(item[w].url)
      skip == \/ item[w].depth > options(w).maxDepth
              \/ normalizedUrl = Undefined
              \/ ~shouldQueue(normalizedUrl, options(w), job(w).seedUrls)
  IN /\ pc[w] = "claimed"
     /\ CpuFree(w)
     /\ IF skip
        THEN CompleteItem(w)
        ELSE IF ~options(w).respectRobots
        THEN PolitenessWait(w, emptyRules(now))
        ELSE IF ~CachedRules(w, Origin(normalizedUrl))
        THEN /\ pc' = [pc EXCEPT ![w] = "robots"]
             /\ UNCHANGED <<crawl_queue, jobsList, statusSnap, item, fetchCount, fetchedOk, startedAt,
                            wakeAt>>
        ELSE IF RobotsBlocked(normalizedUrl, robotsCache[Process(w)][Origin(normalizedUrl)])
        THEN CompleteItem(w)
        ELSE PolitenessWait(w, robotsCache[Process(w)][Origin(normalizedUrl)])
     /\ UNCHANGED <<now, crawl_jobs, pages, links, initializedJobs, deployment, seeding, lastCall, startLog,
                    robotsTxt, robotsCache, domainLastFetch, domainPerformance, lastFetchEnd>>

(* fetchRobotsRules returns: the rules parsed from the robots.txt of the   *)
(* origin, or emptyRules() when the response is not ok or the fetch threw  *)
FetchedRules(fetched) ==
  IF fetched THEN [robotsTxt EXCEPT !.fetchedAt = now] ELSE emptyRules(now)

(* await robotsManager.getRules(origin) returns after fetching robots.txt: *)
(* the rules are cached, then canCrawl and the politeness wait             *)
RobotsDone(w, fetched) ==
  LET normalizedUrl == normalizeCrawlUrl(item[w].url)
      rules == FetchedRules(fetched)
  IN /\ pc[w] = "robots"
     /\ CpuFree(w)
     /\ robotsCache' = [robotsCache EXCEPT ![Process(w)] =
                          MapSet(@, Origin(normalizedUrl), rules)]
     /\ IF RobotsBlocked(normalizedUrl, rules)
        THEN CompleteItem(w)
        ELSE PolitenessWait(w, rules)
     /\ UNCHANGED <<now, crawl_jobs, pages, links, initializedJobs, deployment, seeding, lastCall, startLog,
                    robotsTxt, domainLastFetch, domainPerformance, lastFetchEnd>>

(* the timer of delay(waitMs) fires, at wakeAt or later                    *)
DelayDone(w) ==
  /\ pc[w] = "delay"
  /\ CpuFree(w)
  /\ now >= wakeAt[w]
  /\ StartFetch(w)
  /\ wakeAt' = [wakeAt EXCEPT ![w] = NoTime]
  /\ UNCHANGED <<now, crawl_jobs, crawl_queue, pages, links, initializedJobs, deployment, seeding, lastCall,
                 jobsList, statusSnap, item, startLog, robotsTxt, robotsCache, domainLastFetch,
                 domainPerformance, lastFetchEnd>>

(* for (const link of page.links) ... store.enqueueUrl(job.id, normalizedLink, nextDepth, priority) *)
RECURSIVE EnqueueLinks(_, _, _, _, _, _)
EnqueueLinks(queue, pageLinks, jobRec, opts, nextDepth, t) ==
  IF pageLinks = <<>> THEN queue
  ELSE LET normalizedLink == normalizeCrawlUrl(Head(pageLinks))
           seedHost == ParseURL(jobRec.seedUrls[1]).host
           seedKeywords == extractSeedKeywords(jobRec.seedUrls)
           q == IF normalizedLink = Undefined THEN queue
                ELSE IF ~shouldQueue(normalizedLink, opts, jobRec.seedUrls) THEN queue
                ELSE enqueueUrl(queue, jobRec.id, normalizedLink, nextDepth,
                                scoreDiscoveredUrl(normalizedLink, nextDepth, seedHost,
                                                   seedKeywords), t)
       IN EnqueueLinks(q, Tail(pageLinks), jobRec, opts, nextDepth, t)

(* mutant: discovery without the depth test                                *)
DiscoveryAtAnyDepth(nextDepth, opts) == TRUE

(* if (nextDepth <= options.maxDepth)                                      *)
DiscoveryInDepth(nextDepth, opts) == nextDepth <= opts.maxDepth

(* const previous = store.getLatestPageByUrl(page.url) ??                  *)
(*                  store.getLatestPageByUrl(normalizedUrl): the rows the  *)
(* two queries may return                                                  *)
PreviousPages(pgs, page, normalizedUrl) ==
  IF getLatestPageByUrl(pgs, page.url) # {}
  THEN getLatestPageByUrl(pgs, page.url)
  ELSE getLatestPageByUrl(pgs, normalizedUrl)

(* mutant: the step without the unchanged check                            *)
AlwaysChanged(pgs, page, normalizedUrl) == {FALSE}

(* Boolean(previous?.contentHash && previous.contentHash === page.contentHash) *)
UnchangedOutcomes(pgs, page, normalizedUrl) ==
  IF PreviousPages(pgs, page, normalizedUrl) = {} THEN {FALSE}
  ELSE {pgs[i].content_hash = page.contentHash : i \in PreviousPages(pgs, page, normalizedUrl)}

(* response.url || url: the URL the fetch ended at after redirects         *)
ResponseUrls(normalizedUrl) == {normalizedUrl} \cup FetchRedirects

FetchUrls(w) ==
  IF pc[w] = "fetch" THEN ResponseUrls(normalizeCrawlUrl(item[w].url)) ELSE {}

(* mutant: link discovery only from a page that was saved                  *)
LinksOfSavedPage(page, unchanged) == IF unchanged THEN <<>> ELSE page.links

(* for (const link of page.links): page is the page openStatic returned,   *)
(* saved or not                                                            *)
DiscoveredLinks(page, unchanged) == page.links

(* await openStatic(normalizedUrl, mode) returns a page and nothing after  *)
(* it throws                                                               *)
FetchOk(w, contentHash, pageLinks, responseUrl) ==
  LET normalizedUrl == normalizeCrawlUrl(item[w].url)
      page == ExtractedPage(responseUrl, Undefined, contentHash, pageLinks, now)
      nextDepth == item[w].depth + 1
      completed == completeQueueItem(crawl_queue, item[w].id)
  IN /\ pc[w] = "fetch"
     /\ CpuFree(w)
     /\ responseUrl \in ResponseUrls(normalizedUrl)
     /\ \E unchanged \in UnchangedOutcomes(pages, page, normalizedUrl) :
          /\ pages' = IF unchanged THEN pages ELSE savePage(pages, page, now)
          /\ links' = IF unchanged THEN links ELSE saveLinks(links, page)
          /\ crawl_queue' = IF DiscoveryInDepth(nextDepth, options(w))
                            THEN EnqueueLinks(completed, DiscoveredLinks(page, unchanged),
                                              job(w), options(w), nextDepth, now)
                            ELSE completed
     /\ fetchCount' = RegisterRows(fetchCount, crawl_queue')
     /\ fetchedOk' = [RegisterRows(fetchedOk, crawl_queue') EXCEPT ![item[w].id] = @ + 1]
     /\ domainPerformance' = [domainPerformance EXCEPT ![Process(w)] =
                                updateDomainPerformance(@, item[w].domain, now - startedAt[w])]
     /\ domainLastFetch' = [domainLastFetch EXCEPT ![Process(w)] =
                              MapSet(@, item[w].domain, now)]
     /\ lastFetchEnd' = [lastFetchEnd EXCEPT ![Process(w)] = MapSet(@, item[w].domain, now)]
     /\ startedAt' = [startedAt EXCEPT ![w] = NoTime]
     /\ EndJobStep(w)
     /\ UNCHANGED <<now, crawl_jobs, initializedJobs, deployment, seeding, lastCall, startLog, robotsTxt,
                    robotsCache, wakeAt>>

(* mutant: failed >= 25 instead of failed > 25                             *)
JobFailedAtThreshold(status) == status.stats.failed >= FailedJobThreshold /\ status.stats.done = 0

JobFailed(status) == status.stats.failed > FailedJobThreshold /\ status.stats.done = 0

(* await openStatic throws: the catch block                                *)
FetchFail(w, message) ==
  LET failed == failQueueItem(crawl_queue, item[w].id, message, RetryDelayMsDefault, now)
      refreshed == getCrawlJobStatus(crawl_jobs, failed, job(w).id)
  IN /\ pc[w] = "fetch"
     /\ CpuFree(w)
     /\ crawl_queue' = failed
     /\ crawl_jobs' = IF refreshed # Undefined /\ JobFailed(refreshed)
                      THEN setCrawlJobStatus(crawl_jobs, job(w).id, "failed", now)
                      ELSE crawl_jobs
     /\ lastFetchEnd' = [lastFetchEnd EXCEPT ![Process(w)] = MapSet(@, item[w].domain, now)]
     /\ startedAt' = [startedAt EXCEPT ![w] = NoTime]
     /\ EndJobStep(w)
     /\ UNCHANGED <<now, pages, links, initializedJobs, deployment, seeding, lastCall, fetchCount, fetchedOk, startLog,
                    robotsTxt, robotsCache, domainLastFetch, domainPerformance, wakeAt>>

(* mutant: the links of the page are enqueued before savePage is called    *)
SaveFailAfterDiscover(w, contentHash, responseUrl, message, inserted) ==
  LET normalizedUrl == normalizeCrawlUrl(item[w].url)
      page == ExtractedPage(responseUrl, Undefined, contentHash, <<DocsUrlRaw>>, now)
      discovered == EnqueueLinks(crawl_queue, page.links, job(w), options(w), item[w].depth + 1,
                                 now)
      failed == failQueueItem(discovered, item[w].id, message, RetryDelayMsDefault, now)
      refreshed == getCrawlJobStatus(crawl_jobs, failed, job(w).id)
  IN /\ pc[w] = "fetch"
     /\ CpuFree(w)
     /\ responseUrl \in ResponseUrls(normalizedUrl)
     /\ FALSE \in UnchangedOutcomes(pages, page, normalizedUrl)
     /\ pages' = IF inserted THEN savePage(pages, page, now) ELSE pages
     /\ crawl_queue' = failed
     /\ crawl_jobs' = IF refreshed # Undefined /\ JobFailed(refreshed)
                      THEN setCrawlJobStatus(crawl_jobs, job(w).id, "failed", now)
                      ELSE crawl_jobs
     /\ fetchCount' = RegisterRows(fetchCount, crawl_queue')
     /\ fetchedOk' = [RegisterRows(fetchedOk, crawl_queue') EXCEPT ![item[w].id] = @ + 1]
     /\ domainPerformance' = [domainPerformance EXCEPT ![Process(w)] =
                                updateDomainPerformance(@, item[w].domain, now - startedAt[w])]
     /\ lastFetchEnd' = [lastFetchEnd EXCEPT ![Process(w)] = MapSet(@, item[w].domain, now)]
     /\ startedAt' = [startedAt EXCEPT ![w] = NoTime]
     /\ EndJobStep(w)
     /\ UNCHANGED <<now, links, initializedJobs, deployment, seeding, lastCall, startLog, robotsTxt, robotsCache,
                    domainLastFetch, wakeAt>>

(* openStatic returns a page with a link that is not unchanged, and        *)
(* store.savePage throws: at the INSERT into pages (nothing written), or   *)
(* in the links transaction that follows it (the pages row stays, the      *)
(* links are rolled back); then the catch block                            *)
SaveFail(w, contentHash, responseUrl, message, inserted) ==
  LET normalizedUrl == normalizeCrawlUrl(item[w].url)
      page == ExtractedPage(responseUrl, Undefined, contentHash, <<DocsUrlRaw>>, now)
      failed == failQueueItem(crawl_queue, item[w].id, message, RetryDelayMsDefault, now)
      refreshed == getCrawlJobStatus(crawl_jobs, failed, job(w).id)
  IN /\ pc[w] = "fetch"
     /\ CpuFree(w)
     /\ responseUrl \in ResponseUrls(normalizedUrl)
     /\ FALSE \in UnchangedOutcomes(pages, page, normalizedUrl)
     /\ pages' = IF inserted THEN savePage(pages, page, now) ELSE pages
     /\ crawl_queue' = failed
     /\ crawl_jobs' = IF refreshed # Undefined /\ JobFailed(refreshed)
                      THEN setCrawlJobStatus(crawl_jobs, job(w).id, "failed", now)
                      ELSE crawl_jobs
     /\ domainPerformance' = [domainPerformance EXCEPT ![Process(w)] =
                                updateDomainPerformance(@, item[w].domain, now - startedAt[w])]
     /\ lastFetchEnd' = [lastFetchEnd EXCEPT ![Process(w)] = MapSet(@, item[w].domain, now)]
     /\ startedAt' = [startedAt EXCEPT ![w] = NoTime]
     /\ EndJobStep(w)
     /\ fetchedOk' = [fetchedOk EXCEPT ![item[w].id] = @ + 1]
     /\ UNCHANGED <<now, links, initializedJobs, deployment, seeding, lastCall, fetchCount, startLog, robotsTxt,
                    robotsCache, domainLastFetch, wakeAt>>

Next ==
  \/ Advance
  \/ \E seedUrls \in StartSeeds, opts \in StartOptions : Start(seedUrls, opts)
  \/ \E w \in Workers : TickStart(w)
  \/ \E w \in Workers : Snapshot(w)
  \/ \E w \in Workers : ClaimNone(w)
  \/ \E w \in Workers : ClaimSelect(w)
  \/ \E w \in Workers : ClaimUpdate(w)
  \/ \E w \in Workers : Dispatch(w)
  \/ \E w \in Workers, fetched \in BOOLEAN : RobotsDone(w, fetched)
  \/ \E w \in Workers : DelayDone(w)
  \/ \E w \in Workers, contentHash \in FetchHashes, pageLinks \in LinkLists :
       \E responseUrl \in FetchUrls(w) : FetchOk(w, contentHash, pageLinks, responseUrl)
  \/ \E w \in Workers, contentHash \in FetchHashes, message \in ErrorMessages,
          inserted \in InsertOutcomes :
       \E responseUrl \in FetchUrls(w) : SaveFail(w, contentHash, responseUrl, message, inserted)
  \/ \E w \in Workers, message \in ErrorMessages : FetchFail(w, message)

(* The state reached from start(FailingSeeds) at time 0 when every fetch    *)
(* has failed so far: all seeds were fetched at 0 and again at 1500, and at *)
(* 4500 the first FailedAtStart of them were fetched a third time.  The     *)
(* crawler process has then been restarted.                                *)
FailingSeeds ==
  [i \in 1..(FailedAtStart + PendingAtStart) |->
     Url("https:", "example.com", "", <<ToString(i)>>, <<>>, "")]
FailingJobId == createCrawlJobId(FailingSeeds, 0)
FailingMessage == CHOOSE m \in ErrorMessages : TRUE
FailingRow(i) ==
  [id |-> stableId(<<FailingJobId, FailingSeeds[i]>>), job_id |-> FailingJobId,
   url |-> FailingSeeds[i], depth |-> 0, priority |-> SeedPriority(i - 1),
   next_fetch_at |-> RetryDelayMsDefault + RetryDelayMsDefault * (MaxRetries - 1),
   domain |-> "example.com",
   status |-> IF i <= FailedAtStart THEN "failed" ELSE "pending",
   retries |-> IF i <= FailedAtStart THEN MaxRetries ELSE MaxRetries - 1,
   last_error |-> FailingMessage]

InitFailing ==
  /\ deployment = "failing"
  /\ now = RetryDelayMsDefault + RetryDelayMsDefault * (MaxRetries - 1)
  /\ crawl_jobs = <<[id |-> FailingJobId, status |-> "running", seed_url_json |-> FailingSeeds,
                     created_at |-> 0, finished_at |-> NoTime,
                     options_json |-> StoredOptions(toRuntimeOptions(FailingOptions))]>>
  /\ crawl_queue = [i \in 1..Len(FailingSeeds) |-> FailingRow(i)]
  /\ pages = <<>>
  /\ links = {}
  /\ initializedJobs = [p \in Procs |-> {}]
  /\ pc = [w \in Workers |-> "idle"]
  /\ jobsList = [w \in Workers |-> <<>>]
  /\ statusSnap = [w \in Workers |-> NoStats]
  /\ item = [w \in Workers |-> NoItem]
  /\ fetchCount = [id \in {FailingRow(i).id : i \in 1..Len(FailingSeeds)} |->
                     IF \E i \in 1..FailedAtStart : FailingRow(i).id = id
                     THEN MaxRetries ELSE MaxRetries - 1]
  /\ fetchedOk = [id \in {FailingRow(i).id : i \in 1..Len(FailingSeeds)} |-> 0]
  /\ startLog = <<[call |-> [seedUrls |-> FailingSeeds, options |-> FailingOptions, at |-> 0],
                   result |-> "ok", jobId |-> FailingJobId]>>
  /\ robotsTxt \in ServedRobots
  /\ robotsCache = [p \in Procs |-> <<>>]
  /\ domainLastFetch = [p \in Procs |-> <<>>]
  /\ domainPerformance = [p \in Procs |-> <<>>]
  /\ startedAt = [w \in Workers |-> NoTime]
  /\ wakeAt = [w \in Workers |-> NoTime]
  /\ lastFetchEnd = [p \in Procs |-> <<>>]
  /\ InitSeeding
  /\ lastCall = NoCall

Spec == Init /\ [][Next]_vars

SpecJobs == InitJobs /\ [][Next]_vars

SpecMP == InitMP /\ [][Next]_vars

SpecFailing == InitFailing /\ [][Next]_vars

SpecPages == InitPages /\ [][Next]_vars

SpecRobots == InitRobots /\ [][Next]_vars

(* ------------------- an exception in link discovery -------------------- *)
(* the link is normalized and passes shouldQueue: enqueueUrl is called     *)
ReachesEnqueue(link, opts, seedUrls) ==
  /\ normalizeCrawlUrl(link) # Undefined
  /\ shouldQueue(normalizeCrawlUrl(link), opts, seedUrls)

(* openStatic returns a page, the page is saved unless unchanged, the row  *)
(* is completed and domainLastFetch set; in the loop over page.links the   *)
(* first k links are dealt with and store.enqueueUrl throws for the next   *)
(* one: control is in the catch block                                      *)
DiscoverThrow(w, contentHash, pageLinks, responseUrl, k) ==
  LET normalizedUrl == normalizeCrawlUrl(item[w].url)
      page == ExtractedPage(responseUrl, Undefined, contentHash, pageLinks, now)
      nextDepth == item[w].depth + 1
      completed == completeQueueItem(crawl_queue, item[w].id)
  IN /\ pc[w] = "fetch"
     /\ CpuFree(w)
     /\ responseUrl \in ResponseUrls(normalizedUrl)
     /\ DiscoveryInDepth(nextDepth, options(w))
     /\ k < Len(page.links)
     /\ ReachesEnqueue(page.links[k + 1], options(w), job(w).seedUrls)
     /\ \E unchanged \in UnchangedOutcomes(pages, page, normalizedUrl) :
          /\ pages' = IF unchanged THEN pages ELSE savePage(pages, page, now)
          /\ links' = IF unchanged THEN links ELSE saveLinks(links, page)
     /\ crawl_queue' = EnqueueLinks(completed, SubSeq(page.links, 1, k), job(w), options(w),
                                    nextDepth, now)
     /\ fetchCount' = RegisterRows(fetchCount, crawl_queue')
     /\ fetchedOk' = [RegisterRows(fetchedOk, crawl_queue') EXCEPT ![item[w].id] = @ + 1]
     /\ domainPerformance' = [domainPerformance EXCEPT ![Process(w)] =
                                updateDomainPerformance(@, item[w].domain, now - startedAt[w])]
     /\ domainLastFetch' = [domainLastFetch EXCEPT ![Process(w)] =
                              MapSet(@, item[w].domain, now)]
     /\ lastFetchEnd' = [lastFetchEnd EXCEPT ![Process(w)] = MapSet(@, item[w].domain, now)]
     /\ startedAt' = [startedAt EXCEPT ![w] = NoTime]
     /\ pc' = [pc EXCEPT ![w] = "catch"]
     /\ UNCHANGED <<now, crawl_jobs, initializedJobs, deployment, seeding, lastCall, jobsList, statusSnap,
                    item, startLog, robotsTxt, robotsCache, wakeAt>>

(* the catch block after that: store.failQueueItem(item.id, message), the  *)
(* refreshed status and the test for a failed job                          *)
CatchAfterComplete(w, message) ==
  LET failed == failQueueItem(crawl_queue, item[w].id, message, RetryDelayMsDefault, now)
      refreshed == getCrawlJobStatus(crawl_jobs, failed, job(w).id)
  IN /\ pc[w] = "catch"
     /\ crawl_queue' = failed
     /\ crawl_jobs' = IF refreshed # Undefined /\ JobFailed(refreshed)
                      THEN setCrawlJobStatus(crawl_jobs, job(w).id, "failed", now)
                      ELSE crawl_jobs
     /\ EndJobStep(w)
     /\ UNCHANGED engine
     /\ UNCHANGED <<now, pages, links, initializedJobs, deployment, seeding, lastCall, fetchCount,
                    fetchedOk, startLog>>

InitOverlap == InitCommon /\ deployment = "overlap" /\ InitEngine

NextOverlap ==
  \/ Next
  \/ \E w \in Workers, contentHash \in FetchHashes, pageLinks \in LinkLists,
         k \in 0..(MaxLinks - 1) :
       \E responseUrl \in FetchUrls(w) :
         DiscoverThrow(w, contentHash, pageLinks, responseUrl, k)
  \/ \E w \in Workers, message \in StoreErrors : CatchAfterComplete(w, message)

SpecOverlap == InitOverlap /\ [][NextOverlap]_vars

(* ------------------------------ sitemaps ------------------------------- *)
(* /sitemap/i.test(normalized): the path segments of the model's alphabet  *)
(* that contain the word                                                   *)
SitemapSegments == {"sitemap.xml", "sitemap-a.xml", "sitemap-b.xml"}
MentionsSitemap(url) == \E i \in 1..Len(url.path) : url.path[i] \in SitemapSegments

(* `${seedOrigin.replace(/\/$/, "")}/sitemap.xml`                           *)
DefaultSitemap(origin) == Url(origin[1], origin[2], origin[3], <<"sitemap.xml">>, <<>>, "")

(* mutant: the loop over the <loc> elements without the test of the queue  *)
(* length                                                                  *)
RECURSIVE ReadLocsUncapped(_, _, _, _)
ReadLocsUncapped(locs, isSitemapIndex, st, limit) ==
  IF locs = <<>> THEN st
  ELSE LET normalized == normalizeCrawlUrl(Head(locs))
       IN IF normalized = Undefined THEN ReadLocsUncapped(Tail(locs), isSitemapIndex, st, limit)
          ELSE IF isSitemapIndex \/ MentionsSitemap(normalized)
          THEN ReadLocsUncapped(Tail(locs), isSitemapIndex,
                                [st EXCEPT !.queue = Append(@, normalized),
                                           !.pushedTo = Max2(@, Len(st.queue) + 1)], limit)
          ELSE LET added == IF normalized \in Range(st.found) THEN st.found
                            ELSE Append(st.found, normalized)
               IN IF Len(added) >= limit THEN [st EXCEPT !.found = added]
                  ELSE ReadLocsUncapped(Tail(locs), isSitemapIndex,
                                        [st EXCEPT !.found = added], limit)

(* for (const loc of locMatches): st.queue is the queue of sitemaps still  *)
(* to fetch, st.found the Set sitemapUrls in insertion order, st.pushedTo  *)
(* the longest queue a push has produced (history)                         *)
RECURSIVE ReadLocs(_, _, _, _)
ReadLocs(locs, isSitemapIndex, st, limit) ==
  IF locs = <<>> THEN st
  ELSE LET normalized == normalizeCrawlUrl(Head(locs))
       IN IF normalized = Undefined THEN ReadLocs(Tail(locs), isSitemapIndex, st, limit)
          ELSE IF isSitemapIndex \/ MentionsSitemap(normalized)
          THEN ReadLocs(Tail(locs), isSitemapIndex,
                        IF Len(st.queue) < SitemapQueueCap
                        THEN [st EXCEPT !.queue = Append(@, normalized),
                                        !.pushedTo = Max2(@, Len(st.queue) + 1)]
                        ELSE st, limit)
          ELSE LET added == IF normalized \in Range(st.found) THEN st.found
                            ELSE Append(st.found, normalized)
               IN IF Len(added) >= limit THEN [st EXCEPT !.found = added]
                  ELSE ReadLocs(Tail(locs), isSitemapIndex, [st EXCEPT !.found = added], limit)

(* the while loop of discoverSitemapUrls over the sitemaps the web serves: *)
(* web maps a sitemap URL to its response; a URL it does not map, and a    *)
(* response that is not ok, count as a failed fetch                        *)
RECURSIVE ExpandSitemaps(_, _, _)
ExpandSitemaps(web, st, limit) ==
  IF st.queue # <<>> /\ Len(st.found) < limit /\ st.expansions < SitemapExpansions
  THEN LET sitemap == Head(st.queue)
           shifted == [st EXCEPT !.queue = Tail(@), !.expansions = @ + 1]
       IN ExpandSitemaps(web,
                         IF sitemap \in DOMAIN web /\ web[sitemap].ok
                         THEN ReadLocs(web[sitemap].locs, web[sitemap].isSitemapIndex, shifted,
                                       limit)
                         ELSE shifted,
                         limit)
  ELSE st

discoverSitemapUrlsRun(web, robots, seedOrigin, limit) ==
  ExpandSitemaps(web,
                 [queue |-> IF robots.sitemaps = <<>> THEN <<DefaultSitemap(seedOrigin)>>
                            ELSE robots.sitemaps,
                  found |-> <<>>, expansions |-> 0, pushedTo |-> 0],
                 limit)

(* return [...sitemapUrls].slice(0, limit)                                 *)
discoverSitemapUrls(web, robots, seedOrigin, limit) ==
  LET run == discoverSitemapUrlsRun(web, robots, seedOrigin, limit)
  IN SubSeq(run.found, 1, Min2(limit, Len(run.found)))

(* ----------------------- sitemap initialization ------------------------ *)
(* initializeJobIfNeeded(job, options) with options of its parameter type: *)
(* the options of the job, with seedFromSitemaps and maxSitemapUrls as the *)
(* caller passes them.  A tick stands at "init" before an origin of the    *)
(* loop, at "initRobots" in await getRules, at "initLookup" before         *)
(* getSitemapUrlsCached and at "initSitemaps" in await discoverSitemapUrls. *)

(* [...new Set(job.seedUrls.map((url) => new URL(url).origin))].slice(0, 6) *)
UniqueOrigins(seedUrls) ==
  LET origins == Dedupe([i \in 1..Len(seedUrls) |-> Origin(seedUrls[i])])
  IN SubSeq(origins, 1, Min2(SitemapOrigins, Len(origins)))

(* discoverSitemapUrls(robots, seedOrigin, limit = 100)                    *)
DiscoverLimit(passed) ==
  IF "maxSitemapUrls" \in DOMAIN passed THEN passed.maxSitemapUrls ELSE DefaultSitemapLimit

(* urls.slice(0, limit)                                                    *)
SliceTo(urls, passed) ==
  IF "maxSitemapUrls" \in DOMAIN passed
  THEN SubSeq(urls, 1, Min2(passed.maxSitemapUrls, Len(urls)))
  ELSE urls

(* for (const sitemapUrl of sitemapUrls): enqueueUrl(job.id, sitemapUrl,   *)
(* 0, 120) for the URLs that pass shouldQueue; the call after `left`       *)
(* successful ones throws and ends the loop                                *)
RECURSIVE EnqueueSitemapUrls(_, _, _, _, _, _)
EnqueueSitemapUrls(queue, sitemapUrls, jobRec, opts, left, t) ==
  IF sitemapUrls = <<>> THEN [queue |-> queue, threw |-> FALSE]
  ELSE IF ~shouldQueue(Head(sitemapUrls), opts, jobRec.seedUrls)
  THEN EnqueueSitemapUrls(queue, Tail(sitemapUrls), jobRec, opts, left, t)
  ELSE IF left = 0 THEN [queue |-> queue, threw |-> TRUE]
  ELSE EnqueueSitemapUrls(enqueueUrl(queue, jobRec.id, Head(sitemapUrls), 0, SitemapPriority, t),
                          Tail(sitemapUrls), jobRec, opts, left - 1, t)

(* processJobOnce up to the first line of the loop of initializeJobIfNeeded *)
SnapshotSeeding(w, passed) ==
  LET status == getCrawlJobStatus(crawl_jobs, crawl_queue, job(w).id)
      p == Process(w)
  IN /\ pc[w] = "snap"
     /\ CpuFree(w)
     /\ IF status = Undefined
        THEN EndJobStep(w) /\ UNCHANGED <<crawl_jobs, initializedJobs, initRuns, initLoop>>
        ELSE IF MaxPagesReached(status, options(w))
        THEN /\ crawl_jobs' = setCrawlJobStatus(crawl_jobs, job(w).id, "finished", now)
             /\ EndJobStep(w)
             /\ UNCHANGED <<initializedJobs, initRuns, initLoop>>
        ELSE /\ statusSnap' = [statusSnap EXCEPT ![w] = status.stats]
             /\ UNCHANGED <<crawl_jobs, jobsList, item>>
             /\ IF job(w).id \in initializedJobs[p]
                THEN /\ pc' = [pc EXCEPT ![w] = "claim"]
                     /\ UNCHANGED <<initializedJobs, initRuns, initLoop>>
                ELSE /\ initializedJobs' = [initializedJobs EXCEPT ![p] =
                                              MarkInitialized(@, job(w).id)]
                     /\ initRuns' = CountRun(initRuns, p, job(w).id)
                     /\ IF ~("seedFromSitemaps" \in DOMAIN passed /\ passed.seedFromSitemaps)
                        THEN /\ pc' = [pc EXCEPT ![w] = "claim"]
                             /\ UNCHANGED initLoop
                        ELSE /\ pc' = [pc EXCEPT ![w] = "init"]
                             /\ initLoop' =
                                  [initLoop EXCEPT ![w] =
                                     [NoLoop EXCEPT !.origins = UniqueOrigins(job(w).seedUrls),
                                                    !.passed = passed]]
     /\ UNCHANGED engine
     /\ UNCHANGED <<now, crawl_queue, pages, links, deployment, sitemapCache, sitemapWeb,
                    lastCall, fetchCount, fetchedOk, startLog>>

(* the head of the loop: the method returns after the last origin; else    *)
(* options.respectRobots ? await getRules(origin) : the literal rule set   *)
InitOrigin(w) ==
  LET origin == Head(initLoop[w].origins)
  IN /\ pc[w] = "init"
     /\ CpuFree(w)
     /\ IF initLoop[w].origins = <<>>
        THEN /\ pc' = [pc EXCEPT ![w] = "claim"]
             /\ UNCHANGED initLoop
        ELSE IF ~options(w).respectRobots
        THEN /\ pc' = [pc EXCEPT ![w] = "initLookup"]
             /\ initLoop' = [initLoop EXCEPT ![w].rules = emptyRules(now)]
        ELSE IF CachedRules(w, origin)
        THEN /\ pc' = [pc EXCEPT ![w] = "initLookup"]
             /\ initLoop' = [initLoop EXCEPT ![w].rules = robotsCache[Process(w)][origin]]
        ELSE /\ pc' = [pc EXCEPT ![w] = "initRobots"]
             /\ UNCHANGED initLoop
     /\ UNCHANGED engine
     /\ UNCHANGED <<now, crawl_jobs, crawl_queue, pages, links, initializedJobs, deployment,
                    sitemapCache, sitemapWeb, initRuns, lastCall, jobsList, statusSnap, item,
                    fetchCount, fetchedOk, startLog>>

(* await this.robotsManager.getRules(origin) returns after fetching        *)
InitRobotsDone(w, fetched) ==
  LET origin == Head(initLoop[w].origins)
      rules == FetchedRules(fetched)
  IN /\ pc[w] = "initRobots"
     /\ CpuFree(w)
     /\ robotsCache' = [robotsCache EXCEPT ![Process(w)] = MapSet(@, origin, rules)]
     /\ initLoop' = [initLoop EXCEPT ![w].rules = rules]
     /\ pc' = [pc EXCEPT ![w] = "initLookup"]
     /\ UNCHANGED <<now, crawl_jobs, crawl_queue, pages, links, initializedJobs, deployment,
                    sitemapCache, sitemapWeb, initRuns, lastCall, jobsList, statusSnap, item,
                    fetchCount, fetchedOk, startLog, robotsTxt, domainLastFetch,
                    domainPerformance, startedAt, wakeAt, lastFetchEnd>>

(* the rest of an iteration once the sitemap URLs are known: the enqueue   *)
(* loop inside try, the empty catch, and on to the next origin             *)
SeedOrigin(w, sitemapUrls, throwsAfter) ==
  LET done == EnqueueSitemapUrls(crawl_queue, sitemapUrls, job(w), options(w), throwsAfter, now)
  IN /\ crawl_queue' = done.queue
     /\ fetchCount' = RegisterRows(fetchCount, crawl_queue')
     /\ fetchedOk' = RegisterRows(fetchedOk, crawl_queue')
     /\ initLoop' = [initLoop EXCEPT ![w] =
                       [@ EXCEPT !.origins = Tail(@), !.rules = Undefined, !.calledAt = NoTime,
                                 !.caught = IF done.threw THEN @ + 1 ELSE @]]
     /\ pc' = [pc EXCEPT ![w] = "init"]

(* getSitemapUrlsCached up to its await: a cached list that has not        *)
(* expired is returned, else discoverSitemapUrls is called                 *)
InitLookup(w, throwsAfter) ==
  LET origin == Head(initLoop[w].origins)
      cache == sitemapCache[Process(w)]
  IN /\ pc[w] = "initLookup"
     /\ CpuFree(w)
     /\ IF origin \in DOMAIN cache /\ cache[origin].expiresAt > now
        THEN SeedOrigin(w, SliceTo(cache[origin].urls, initLoop[w].passed), throwsAfter)
        ELSE /\ pc' = [pc EXCEPT ![w] = "initSitemaps"]
             /\ initLoop' = [initLoop EXCEPT ![w].calledAt = now]
             /\ UNCHANGED <<crawl_queue, fetchCount, fetchedOk>>
     /\ UNCHANGED engine
     /\ UNCHANGED <<now, crawl_jobs, pages, links, initializedJobs, deployment, sitemapCache,
                    sitemapWeb, initRuns, lastCall, jobsList, statusSnap, item, startLog>>

(* await discoverSitemapUrls(robotsRules, origin, limit) returns: the list *)
(* is cached for six hours from the time of the call                       *)
InitSitemapsDone(w, throwsAfter) ==
  LET origin == Head(initLoop[w].origins)
      urls == discoverSitemapUrls(sitemapWeb, initLoop[w].rules, origin,
                                  DiscoverLimit(initLoop[w].passed))
  IN /\ pc[w] = "initSitemaps"
     /\ CpuFree(w)
     /\ sitemapCache' = [sitemapCache EXCEPT ![Process(w)] =
                           MapSet(@, origin, [urls |-> urls,
                                              expiresAt |-> initLoop[w].calledAt + SitemapTtlMs])]
     /\ SeedOrigin(w, urls, throwsAfter)
     /\ UNCHANGED engine
     /\ UNCHANGED <<now, crawl_jobs, pages, links, initializedJobs, deployment, sitemapWeb,
                    initRuns, lastCall, jobsList, statusSnap, item, startLog>>

InitSitemap == InitCommon /\ deployment = "sitemap" /\ InitEngine

NextSitemap ==
  \/ \E seedUrls \in StartSeeds, opts \in StartOptions : Start(seedUrls, opts)
  \/ \E w \in Workers : TickStart(w)
  \/ \E w \in Workers, passed \in SeedingPassed : SnapshotSeeding(w, passed)
  \/ \E w \in Workers : InitOrigin(w)
  \/ \E w \in Workers, fetched \in BOOLEAN : InitRobotsDone(w, fetched)
  \/ \E w \in Workers, throwsAfter \in SeedingThrows : InitLookup(w, throwsAfter)
  \/ \E w \in Workers, throwsAfter \in SeedingThrows : InitSitemapsDone(w, throwsAfter)
  \/ \E w \in Workers : ClaimNone(w)
  \/ \E w \in Workers : ClaimSelect(w)
  \/ \E w \in Workers : ClaimUpdate(w)
  \/ \E w \in Workers : Dispatch(w)

SpecSitemap == InitSitemap /\ [][NextSitemap]_vars

(* ------------------------- crash and restart --------------------------- *)
(* The crawler process stops, at any point of its ticks, and is started    *)
(* again: getCrawlerService() makes a new CrawlerService with empty maps   *)
(* and a new RobotsManager, no tick of the old process is left, and        *)
(* data/webx.sqlite is as the old process left it.  initRuns and           *)
(* lastFetchEnd are histories of the running process.                      *)
Restart(p) ==
  /\ \/ \E w \in Workers : Process(w) = p /\ pc[w] # "idle"
     \/ initializedJobs[p] # {}
  /\ pc' = [w \in Workers |-> IF Process(w) = p THEN "idle" ELSE pc[w]]
  /\ jobsList' = [w \in Workers |-> IF Process(w) = p THEN <<>> ELSE jobsList[w]]
  /\ statusSnap' = [w \in Workers |-> IF Process(w) = p THEN NoStats ELSE statusSnap[w]]
  /\ item' = [w \in Workers |-> IF Process(w) = p THEN NoItem ELSE item[w]]
  /\ startedAt' = [w \in Workers |-> IF Process(w) = p THEN NoTime ELSE startedAt[w]]
  /\ wakeAt' = [w \in Workers |-> IF Process(w) = p THEN NoTime ELSE wakeAt[w]]
  /\ initLoop' = [w \in Workers |-> IF Process(w) = p THEN NoLoop ELSE initLoop[w]]
  /\ initializedJobs' = [initializedJobs EXCEPT ![p] = {}]
  /\ initRuns' = [initRuns EXCEPT ![p] = <<>>]
  /\ robotsCache' = [robotsCache EXCEPT ![p] = <<>>]
  /\ sitemapCache' = [sitemapCache EXCEPT ![p] = <<>>]
  /\ domainLastFetch' = [domainLastFetch EXCEPT ![p] = <<>>]
  /\ domainPerformance' = [domainPerformance EXCEPT ![p] = <<>>]
  /\ lastFetchEnd' = [lastFetchEnd EXCEPT ![p] = <<>>]
  /\ UNCHANGED <<now, crawl_jobs, crawl_queue, pages, links, deployment, sitemapWeb, lastCall,
                 fetchCount, fetchedOk, startLog, robotsTxt>>

InitRestart == InitCommon /\ deployment = "restart" /\ InitEngine

(* one crawler process, one tick at a time, one job, whose caller may pass *)
(* seedFromSitemaps, and which may be restarted                            *)
NextRestart ==
  \/ Advance
  \/ \E seedUrls \in StartSeeds, opts \in StartOptions : Start(seedUrls, opts)
  \/ \E w \in Workers : TickStart(w)
  \/ \E w \in Workers, passed \in SeedingPassed : SnapshotSeeding(w, passed)
  \/ \E w \in Workers : InitOrigin(w)
  \/ \E w \in Workers, fetched \in BOOLEAN : InitRobotsDone(w, fetched)
  \/ \E w \in Workers, throwsAfter \in SeedingThrows : InitLookup(w, throwsAfter)
  \/ \E w \in Workers, throwsAfter \in SeedingThrows : InitSitemapsDone(w, throwsAfter)
  \/ \E w \in Workers : ClaimNone(w)
  \/ \E w \in Workers : ClaimSelect(w)
  \/ \E w \in Workers : ClaimUpdate(w)
  \/ \E w \in Workers : Dispatch(w)
  \/ \E w \in Workers, fetched \in BOOLEAN : RobotsDone(w, fetched)
  \/ \E w \in Workers : DelayDone(w)
  \/ \E w \in Workers, contentHash \in FetchHashes, pageLinks \in LinkLists :
       \E responseUrl \in FetchUrls(w) : FetchOk(w, contentHash, pageLinks, responseUrl)
  \/ \E w \in Workers, message \in ErrorMessages : FetchFail(w, message)
  \/ \E p \in Procs : Restart(p)

SpecRestart == InitRestart /\ [][NextRestart]_vars

(* The same process found with the store an earlier run left: a job whose  *)
(* first seed failed three times, at 0, 1500 and 4500 ms, and whose second *)
(* seed failed at 0 and 1500 ms and is due again.                          *)
ResumeSeeds == <<DocsUrl, RootUrl>>
ResumeOptions == [respectRobots |-> FALSE]
ResumeJobId == createCrawlJobId(ResumeSeeds, 0)
ResumeRowId(url) == stableId(<<ResumeJobId, url>>)
ResumeFail(queue, url, t) ==
  failQueueItem(queue, ResumeRowId(url), FailingMessage, RetryDelayMsDefault, t)
ResumeQueue ==
  LET enqueued == EnqueueSeeds(<<>>, ResumeJobId, ResumeSeeds, 0, 0)
      first == ResumeFail(ResumeFail(enqueued, DocsUrl, 0), RootUrl, 0)
      second == ResumeFail(ResumeFail(first, DocsUrl, RetryDelayMsDefault), RootUrl,
                           RetryDelayMsDefault)
  IN ResumeFail(second, DocsUrl, RetryDelayMsDefault + RetryDelayMsDefault * (MaxRetries - 1))

InitResume ==
  /\ deployment = "resume"
  /\ now = RetryDelayMsDefault + RetryDelayMsDefault * (MaxRetries - 1)
  /\ crawl_jobs = setCrawlJobStatus(
                     createCrawlJob(<<>>, ResumeSeeds,
                                    StoredOptions(toRuntimeOptions(ResumeOptions)), 0),
                     ResumeJobId, "running", 0)
  /\ crawl_queue = ResumeQueue
  /\ pages = <<>>
  /\ links = {}
  /\ initializedJobs = [p \in Procs |-> {}]
  /\ pc = [w \in Workers |-> "idle"]
  /\ jobsList = [w \in Workers |-> <<>>]
  /\ statusSnap = [w \in Workers |-> NoStats]
  /\ item = [w \in Workers |-> NoItem]
  /\ fetchCount = [id \in {ResumeRowId(DocsUrl), ResumeRowId(RootUrl)} |->
                     IF id = ResumeRowId(DocsUrl) THEN MaxRetries ELSE MaxRetries - 1]
  /\ fetchedOk = [id \in {ResumeRowId(DocsUrl), ResumeRowId(RootUrl)} |-> 0]
  /\ startLog = <<[call |-> [seedUrls |-> ResumeSeeds, options |-> ResumeOptions, at |-> 0],
                   result |-> "ok", jobId |-> ResumeJobId]>>
  /\ lastCall = NoCall
  /\ InitEngine

(* no other job is started, and the job, started with respectRobots false, *)
(* asks for no robots.txt                                                  *)
NextResume ==
  \/ Advance
  \/ \E w \in Workers : TickStart(w)
  \/ \E w \in Workers, passed \in SeedingPassed : SnapshotSeeding(w, passed)
  \/ \E w \in Workers : InitOrigin(w)
  \/ \E w \in Workers, throwsAfter \in SeedingThrows : InitLookup(w, throwsAfter)
  \/ \E w \in Workers, throwsAfter \in SeedingThrows : InitSitemapsDone(w, throwsAfter)
  \/ \E w \in Workers : ClaimNone(w)
  \/ \E w \in Workers : ClaimSelect(w)
  \/ \E w \in Workers : ClaimUpdate(w)
  \/ \E w \in Workers : Dispatch(w)
  \/ \E w \in Workers : DelayDone(w)
  \/ \E w \in Workers, contentHash \in FetchHashes, pageLinks \in LinkLists :
       \E responseUrl \in FetchUrls(w) : FetchOk(w, contentHash, pageLinks, responseUrl)
  \/ \E w \in Workers, message \in ErrorMessages : FetchFail(w, message)
  \/ \E p \in Procs : Restart(p)

SpecResume == InitResume /\ [][NextResume]_vars

(* --------------------------- hours passing ----------------------------- *)
(* The engine followed over the lifetime of a robots.txt cache entry: time *)
(* passes, while every tick is idle or awaiting, to one of a few instants  *)
(* around the six hours.                                                   *)
RobotsInstants == {ClockStep, RobotsTtlMs - 1, RobotsTtlMs, RobotsTtlMs + ClockStep}

Elapse(t) ==
  /\ t > now
  /\ \A w \in Workers : pc[w] \notin SyncPcs
  /\ now' = t
  /\ UNCHANGED engine
  /\ UNCHANGED <<crawl_jobs, crawl_queue, pages, links, initializedJobs, deployment, seeding,
                 lastCall, pc, jobsList, statusSnap, item, fetchCount, fetchedOk, startLog>>

InitHours == InitCommon /\ deployment = "hours" /\ InitEngine

NextHours ==
  \/ \E t \in RobotsInstants : Elapse(t)
  \/ \E seedUrls \in StartSeeds, opts \in StartOptions : Start(seedUrls, opts)
  \/ \E w \in Workers : TickStart(w)
  \/ \E w \in Workers : Snapshot(w)
  \/ \E w \in Workers : ClaimNone(w)
  \/ \E w \in Workers : ClaimSelect(w)
  \/ \E w \in Workers : ClaimUpdate(w)
  \/ \E w \in Workers : Dispatch(w)
  \/ \E w \in Workers, fetched \in BOOLEAN : RobotsDone(w, fetched)
  \/ \E w \in Workers : DelayDone(w)
  \/ \E w \in Workers, contentHash \in FetchHashes, pageLinks \in LinkLists :
       \E responseUrl \in FetchUrls(w) : FetchOk(w, contentHash, pageLinks, responseUrl)
  \/ \E w \in Workers, message \in ErrorMessages : FetchFail(w, message)

SpecHours == InitHours /\ [][NextHours]_vars

(* ------------------------- the worker kept running --------------------- *)
(* The engine followed without a bound on time or on fetches.  Time passes *)
(* while every tick is idle or awaiting, and only while a timer or a row   *)
(* of an active job waits for it: time that passes while nothing waits for *)
(* it changes timestamps only.                                             *)
Waiting ==
  \/ \E w \in Workers : pc[w] = "delay" /\ wakeAt[w] > now
  \/ \E i \in 1..Len(crawl_queue), j \in 1..Len(crawl_jobs) :
       /\ crawl_queue[i].job_id = crawl_jobs[j].id
       /\ crawl_jobs[j].status \in {"queued", "running"}
       /\ crawl_queue[i].status = "pending"
       /\ crawl_queue[i].next_fetch_at > now

TimePasses ==
  /\ Waiting
  /\ \A w \in Workers : pc[w] \notin SyncPcs
  /\ now' = now + ClockStep
  /\ UNCHANGED engine
  /\ UNCHANGED <<crawl_jobs, crawl_queue, pages, links, initializedJobs, deployment, seeding,
                 lastCall, pc, jobsList, statusSnap, item, fetchCount, fetchedOk, startLog>>

(* await openStatic(...) settles, one way or the other                     *)
FetchReturns(w) ==
  \/ \E contentHash \in FetchHashes, pageLinks \in LinkLists :
       \E responseUrl \in FetchUrls(w) : FetchOk(w, contentHash, pageLinks, responseUrl)
  \/ \E contentHash \in FetchHashes, message \in ErrorMessages, inserted \in InsertOutcomes :
       \E responseUrl \in FetchUrls(w) : SaveFail(w, contentHash, responseUrl, message, inserted)
  \/ \E message \in ErrorMessages : FetchFail(w, message)

InitLive == InitCommon /\ deployment = "live" /\ InitEngine

NextLive ==
  \/ TimePasses
  \/ \E seedUrls \in StartSeeds, opts \in StartOptions : Start(seedUrls, opts)
  \/ \E w \in Workers : TickStart(w)
  \/ \E w \in Workers : Snapshot(w)
  \/ \E w \in Workers : ClaimNone(w)
  \/ \E w \in Workers : ClaimSelect(w)
  \/ \E w \in Workers : ClaimUpdate(w)
  \/ \E w \in Workers : Dispatch(w)
  \/ \E w \in Workers, fetched \in BOOLEAN : RobotsDone(w, fetched)
  \/ \E w \in Workers : DelayDone(w)
  \/ \E w \in Workers : FetchReturns(w)

(* setInterval keeps calling tick, the event loop runs every callback that *)
(* is ready, timers fire, and every request settles.  Date.now() grows     *)
(* without bound: a synchronous section postpones the instant at which the *)
(* program reads the clock, it does not stop the clock, hence SF.          *)
Fairness ==
  /\ SF_vars(TimePasses)
  /\ \A w \in Workers :
       /\ WF_vars(TickStart(w))
       /\ WF_vars(Snapshot(w))
       /\ WF_vars(ClaimNone(w))
       /\ WF_vars(ClaimSelect(w))
       /\ WF_vars(ClaimUpdate(w))
       /\ WF_vars(Dispatch(w))
       /\ WF_vars(\E fetched \in BOOLEAN : RobotsDone(w, fetched))
       /\ WF_vars(DelayDone(w))
       /\ WF_vars(FetchReturns(w))

SpecLive == InitLive /\ [][NextLive]_vars /\ Fairness

(* ---------------------------- the store alone -------------------------- *)
(* The pages an extractor may hand to savePage: of two URLs, with and      *)
(* without a canonical link, with either content and either list of links, *)
(* all extracted in the same millisecond, so that pages of equal id differ *)
StorePages ==
  {ExtractedPage(url, canonicalUrl, contentHash, pageLinks, 0) :
     url \in {RootUrl, DocsUrl}, canonicalUrl \in {Undefined, RootUrl},
     contentHash \in ContentHashes, pageLinks \in LinkLists}

(* WebxService.open and actionsList: getStore().savePage(page), and a      *)
(* getPageById(page.id) after it                                           *)
SavePageCall(page) ==
  /\ lastCall.n < MaxSaves
  /\ pages' = savePage(pages, page, now)
  /\ links' = saveLinks(links, page)
  /\ lastCall' = [op |-> "savePage", n |-> lastCall.n + 1, page |-> page,
                  result |-> getPageById(pages', page.id)]
  /\ UNCHANGED engine
  /\ UNCHANGED <<now, crawl_jobs, crawl_queue, initializedJobs, deployment, seeding, pc, jobsList,
                 statusSnap, item, fetchCount, fetchedOk, startLog>>

InitStore == InitCommon /\ deployment = "store" /\ InitEngine

NextStore == \E page \in StorePages : SavePageCall(page)

SpecStore == InitStore /\ [][NextStore]_vars

(* -------------------------- the URL utilities -------------------------- *)
(* the strings normalizeCrawlUrl is called with: seeds and links as they   *)
(* are written, with any scheme, default and other ports, doubled and      *)
(* trailing slashes, tracking and other query keys in any order, fragments, *)
(* and text that is not a URL                                              *)
SeqsUpTo(S, n) == {<<>>} \cup UNION {[1..m -> S] : m \in 1..n}
RawPaths == { <<>>, <<"docs", "">>, <<"", "docs">>, <<"docs", "", "guide", "", "">> }
QueryPairs ==
  {[k |-> key, v |-> "1"] : key \in {"a", "b", "utm_source", "UTM_Source", "ref"}}
    \cup {[k |-> "a", v |-> "2"]}
RawUrls ==
  {Url(protocol, host, port, path, query, fragment) :
     protocol \in {"https:", "http:", "ftp:", ""}, host \in {"Example.com", "example.com"},
     port \in {"", "80", "443", "8080"}, path \in RawPaths,
     query \in SeqsUpTo(QueryPairs, MaxQueryLen), fragment \in {"", "top"}}

(* normalizeCrawlUrl(input), and normalizeCrawlUrl of what it returned; a  *)
(* utility function has no state, so one call is followed per behaviour    *)
NormalizeCall(input) ==
  /\ lastCall = NoCall
  /\ lastCall' = [op |-> "normalizeCrawlUrl", n |-> 0, input |-> input,
                  result |-> normalizeCrawlUrl(input),
                  again |-> IF normalizeCrawlUrl(input) = Undefined THEN Undefined
                            ELSE normalizeCrawlUrl(normalizeCrawlUrl(input))]
  /\ UNCHANGED engine
  /\ UNCHANGED <<now, crawl_jobs, crawl_queue, pages, links, initializedJobs, deployment, seeding, pc,
                 jobsList, statusSnap, item, fetchCount, fetchedOk, startLog>>

(* the arguments scoreDiscoveredUrl is called with: links that do and do   *)
(* not parse, on and off the seed host, down to four path segments, at     *)
(* small and very large depths, with any set of seed keywords              *)
LongUrl == Url("https:", "example.com", "", <<"docs", "guide", "login", "file.pdf">>, <<>>, "")
ScoreUrls == {NotAUrl, RootUrl, OtherUrl, GuideUrlRaw, LoginUrl, LongUrl}
ScoreDepths == {0, 1, 2, 10, MaxScoreDepth}
ScoreKeywords == SUBSET {"example", "com", "docs", "guide", "login", "file", "pdf", "other"}

(* scoreDiscoveredUrl(url, nextDepth, {seedHost, seedKeywords}), and the    *)
(* same call with no seed keyword                                          *)
ScoreCall(url, nextDepth, seedHost, seedKeywords) ==
  /\ lastCall = NoCall
  /\ lastCall' = [op |-> "scoreDiscoveredUrl", n |-> 0, url |-> url, nextDepth |-> nextDepth,
                  seedHost |-> seedHost, seedKeywords |-> seedKeywords,
                  result |-> scoreDiscoveredUrl(url, nextDepth, seedHost, seedKeywords),
                  noMatch |-> scoreDiscoveredUrl(url, nextDepth, seedHost, {})]
  /\ UNCHANGED engine
  /\ UNCHANGED <<now, crawl_jobs, crawl_queue, pages, links, initializedJobs, deployment, seeding, pc,
                 jobsList, statusSnap, item, fetchCount, fetchedOk, startLog>>

(* the documents extractActionsFromHtml is called with: up to MaxNodes     *)
(* elements of any kind (some with the same id, name or class, one link    *)
(* whose href does not parse), followed by a run of plain links, which are *)
(* told apart by their position alone                                      *)
NodeKinds ==
  { Node("a", "x", "", "", "", "", DocsUrl),
    Node("a", "x", "", "", "", "", RootUrl),
    Node("a", "", "", "", "nav", "", DocsUrl),
    Node("a", "", "", "", "", "", NotAUrl),
    Node("button", "", "", "", "nav", "", NotAUrl),
    Node("input", "", "q", "", "", "submit", NotAUrl),
    Node("input", "", "q", "", "", "text", NotAUrl),
    Node("select", "", "", "sort", "", "", NotAUrl),
    Node("form", "", "", "", "", "", NotAUrl) }
PlainLinks(m) == [i \in 1..m |-> Node("a", "", "", "", "", "", RootUrl)]
PlainRuns == {0, ActionCap - 1, ActionCap, NodeCap}
HtmlDocs == {head \o PlainLinks(m) : head \in SeqsUpTo(NodeKinds, MaxNodes), m \in PlainRuns}

(* extractActionsFromHtml(baseUrl, html), called twice                     *)
ExtractCall(baseUrl, html) ==
  /\ lastCall = NoCall
  /\ lastCall' = [op |-> "extractActionsFromHtml", n |-> 0, baseUrl |-> baseUrl, html |-> html,
                  result |-> extractActionsFromHtml(baseUrl, html),
                  again |-> extractActionsFromHtml(baseUrl, html)]
  /\ UNCHANGED engine
  /\ UNCHANGED <<now, crawl_jobs, crawl_queue, pages, links, initializedJobs, deployment, seeding, pc,
                 jobsList, statusSnap, item, fetchCount, fetchedOk, startLog>>

(* the inputs still to be tried: none once the call has been made          *)
Untried(inputs) == IF lastCall = NoCall THEN inputs ELSE {}

(* what discoverSitemapUrls is called on: origins that serve nothing, an   *)
(* index that lists itself, an index that lists more sitemaps than the     *)
(* queue takes (none of which is served), and a sitemap of pages with      *)
(* repeated, unparsable and sitemap-like entries; a robots.txt without     *)
(* Sitemap lines, with one, and with more than the queue takes             *)
ManyUrls == [i \in 1..SitemapFanout |-> Url("https:", "example.com", "", <<ToString(i)>>, <<>>, "")]
WideWeb == [u \in {SitemapRoot} |-> SitemapResponse(TRUE, TRUE, ManyUrls)]
PagesWeb ==
  [u \in {SitemapRoot, SitemapA} |->
     SitemapResponse(TRUE, FALSE,
                     <<DocsUrlRaw, NotAUrl, SitemapA, DocsUrl, PdfUrl, SitemapRoot, OtherUrl>>)]
BrokenWeb == [u \in {SitemapRoot, SitemapA} |-> SitemapResponse(FALSE, TRUE, <<SitemapA>>)]
SitemapWebs == {NoWeb, SiteWeb, WideWeb, PagesWeb, BrokenWeb}
SitemapRobotsFiles ==
  {emptyRules(0), SitemapRobots, [DisallowDocs EXCEPT !.sitemaps = ManyUrls],
   [DisallowDocs EXCEPT !.sitemaps = <<SitemapRoot, SitemapA, SitemapRoot>>]}
DiscoverLimits == {0, 1, 2, 3, DefaultSitemapLimit}

(* discoverSitemapUrls(robots, seedOrigin, limit) against the sitemaps of  *)
(* web: what it returns, and the counters of its run                       *)
DiscoverCall(web, robots, seedOrigin, limit) ==
  /\ lastCall = NoCall
  /\ lastCall' = [op |-> "discoverSitemapUrls", n |-> 0, web |-> web, robots |-> robots,
                  limit |-> limit,
                  result |-> discoverSitemapUrls(web, robots, seedOrigin, limit),
                  run |-> discoverSitemapUrlsRun(web, robots, seedOrigin, limit)]
  /\ UNCHANGED engine
  /\ UNCHANGED <<now, crawl_jobs, crawl_queue, pages, links, initializedJobs, deployment, seeding, pc,
                 jobsList, statusSnap, item, fetchCount, fetchedOk, startLog>>

InitUtil == InitCommon /\ deployment = "util" /\ InitEngine

NextUtil ==
  \/ \E input \in Untried(RawUrls) : NormalizeCall(input)
  \/ \E url \in Untried(ScoreUrls), nextDepth \in ScoreDepths,
        seedHost \in {"example.com", "other.org"}, seedKeywords \in ScoreKeywords :
       ScoreCall(url, nextDepth, seedHost, seedKeywords)
  \/ \E html \in Untried(HtmlDocs) : ExtractCall(RootUrl, html)
  \/ \E web \in Untried(SitemapWebs), robots \in SitemapRobotsFiles, limit \in DiscoverLimits :
       DiscoverCall(web, robots, Origin(RootUrl), limit)

SpecUtil == InitUtil /\ [][NextUtil]_vars

(* ============================== properties ============================== *)

(* C1: queue uniqueness - in every reachable state the crawl queue holds at *)
(* most one row for every (jobId, url), however often and with whatever     *)
(* depth and priority enqueueUrl was called for the pair.                   *)
C1_QueueUnique ==
  \A i, j \in 1..Len(crawl_queue) :
    (crawl_queue[i].job_id = crawl_queue[j].job_id /\ crawl_queue[i].url = crawl_queue[j].url)
      => i = j

(* a page of the job's host was saved with a link to /docs while the job    *)
(* already had /docs as a seed row: enqueueUrl ran again for that pair      *)
C1_Witness ==
  \E i, k \in 1..Len(crawl_queue) : \E p \in 1..Len(pages) :
    /\ crawl_queue[i].url = DocsUrl /\ crawl_queue[i].depth = 0
    /\ crawl_queue[k].job_id = crawl_queue[i].job_id
    /\ crawl_queue[k].url = RootUrl /\ crawl_queue[k].status = "done"
    /\ pages[p].url = RootUrl
    /\ [from_page_id |-> pages[p].id, to_url |-> DocsUrlRaw] \in links

C3_NoDoubleClaim ==
  \A w1, w2 \in Workers :
    (/\ w1 # w2
     /\ pc[w1] \in {"claimed", "robots", "fetch"}
     /\ pc[w2] \in {"claimed", "robots", "fetch"})
      => item[w1].id # item[w2].id

(* C4: failQueueItem increments the row's retries by one and records the    *)
(* error; at retries >= 3 the row becomes failed with next_fetch_at         *)
(* unchanged, otherwise pending with next_fetch_at = now + retries * 1500;  *)
(* no other row and no other column changes.                                *)
C4_FailQueueItem ==
  [][\A w \in Workers : \A i \in 1..Len(crawl_queue) :
       (/\ pc[w] = "fetch" /\ pc'[w] # "fetch"
        /\ crawl_queue[i].id = item[w].id
        /\ crawl_queue'[i].status # "done")
         => LET old == crawl_queue[i]
                new == crawl_queue'[i]
            IN /\ new.retries = old.retries + 1
               /\ new.last_error \in ErrorMessages
               /\ IF new.retries >= 3
                  THEN new = [old EXCEPT !.status = "failed", !.retries = new.retries,
                                         !.last_error = new.last_error]
                  ELSE new = [old EXCEPT !.status = "pending", !.retries = new.retries,
                                         !.last_error = new.last_error,
                                         !.next_fetch_at = now + new.retries * 1500]
               /\ Len(crawl_queue') = Len(crawl_queue)
               /\ \A j \in 1..Len(crawl_queue) : j # i => crawl_queue'[j] = crawl_queue[j]]_vars

(* a row has just failed for the second time: pending, due in 3000 ms       *)
C4_Witness ==
  \E i \in 1..Len(crawl_queue) :
    /\ crawl_queue[i].status = "pending"
    /\ crawl_queue[i].retries = 2
    /\ crawl_queue[i].last_error \in ErrorMessages
    /\ crawl_queue[i].next_fetch_at = now + 3000

(* C5: an item whose fetch keeps failing is fetched at most 3 times, after  *)
(* its k-th failure it is not claimable before k * 1500 ms have passed, at  *)
(* the third failure it is marked failed and is never fetched again, and    *)
(* its retries counter never exceeds 3.                                     *)
C5_RetryBackoff ==
  /\ [](\A i \in 1..Len(crawl_queue) :
          /\ crawl_queue[i].retries <= 3
          /\ fetchCount[crawl_queue[i].id] <= 3
          /\ (crawl_queue[i].retries = 3) <=> (crawl_queue[i].status = "failed"))
  /\ [](\A w \in Workers :
          pc[w] \in {"selected", "claimed", "robots", "fetch"} => item[w].next_fetch_at <= now)
  /\ [][\A i \in 1..Len(crawl_queue) :
          /\ crawl_queue[i].status = "failed" =>
               /\ crawl_queue'[i] = crawl_queue[i]
               /\ fetchCount'[crawl_queue[i].id] = fetchCount[crawl_queue[i].id]
          /\ (crawl_queue'[i].retries > crawl_queue[i].retries
              /\ crawl_queue'[i].status = "pending") =>
               crawl_queue'[i].next_fetch_at >= now + crawl_queue'[i].retries * 1500
          /\ (crawl_queue[i].status = "pending" /\ crawl_queue'[i].status = "pending"
              /\ crawl_queue'[i].retries = crawl_queue[i].retries) =>
               crawl_queue'[i].next_fetch_at = crawl_queue[i].next_fetch_at]_vars

(* a row has been fetched three times, failed three times and is failed     *)
C5_Witness ==
  \E i \in 1..Len(crawl_queue) :
    /\ crawl_queue[i].status = "failed"
    /\ crawl_queue[i].retries = 3
    /\ fetchCount[crawl_queue[i].id] = 3

(* C6: a successful start creates exactly one job; when it returns the job *)
(* is running and the queue holds exactly one pending row with retries 0    *)
(* and depth 0 per distinct normalized seed, the i-th distinct seed         *)
(* (counted from 0) with priority 140 - i.                                  *)
C6_StartEnqueuesSeeds ==
  [][(Len(startLog') = Len(startLog) + 1 /\ startLog'[Len(startLog')].result = "ok") =>
       LET call == startLog'[Len(startLog')].call
           jobId == startLog'[Len(startLog')].jobId
           seeds == call.seedUrls
           valid == {i \in 1..Len(seeds) : normalizeCrawlUrl(seeds[i]) # Undefined}
           first == {i \in valid :
                       \A j \in valid :
                         normalizeCrawlUrl(seeds[j]) = normalizeCrawlUrl(seeds[i]) => j >= i}
           rank(i) == Cardinality({j \in first : j < i})
           rows == {k \in 1..Len(crawl_queue') : crawl_queue'[k].job_id = jobId}
       IN /\ Len(crawl_jobs') = Len(crawl_jobs) + 1
          /\ SubSeq(crawl_jobs', 1, Len(crawl_jobs)) = crawl_jobs
          /\ crawl_jobs'[Len(crawl_jobs')].id = jobId
          /\ crawl_jobs'[Len(crawl_jobs')].status = "running"
          /\ \A k \in 1..Len(crawl_jobs) : crawl_jobs[k].id # jobId
          /\ SubSeq(crawl_queue', 1, Len(crawl_queue)) = crawl_queue
          /\ rows = (Len(crawl_queue) + 1)..Len(crawl_queue')
          /\ Cardinality(rows) = Cardinality(first)
          /\ \A i \in first :
               \E k \in rows :
                 /\ crawl_queue'[k].url = normalizeCrawlUrl(seeds[i])
                 /\ crawl_queue'[k].depth = 0
                 /\ crawl_queue'[k].priority = 140 - rank(i)
                 /\ crawl_queue'[k].status = "pending"
                 /\ crawl_queue'[k].retries = 0]_vars

(* start has returned for four seeds of which one does not normalize and    *)
(* two normalize to the same URL, while another job exists                  *)
C6_Witness ==
  \E n \in 1..Len(startLog) :
    /\ startLog[n].result = "ok"
    /\ Len(startLog[n].call.seedUrls) = 4
    /\ Len(crawl_jobs) = 2
    /\ Cardinality({k \in 1..Len(crawl_queue) : crawl_queue[k].job_id = startLog[n].jobId}) = 2

(* C7: when no seed URL normalizes to an http(s) URL, start fails with      *)
(* NoValidSeeds and leaves the store unchanged: no crawl_jobs row and no    *)
(* crawl_queue row is created.                                              *)
C7_NoValidSeeds ==
  [][(/\ Len(startLog') = Len(startLog) + 1
      /\ LET seeds == startLog'[Len(startLog')].call.seedUrls
         IN \A i \in 1..Len(seeds) : normalizeCrawlUrl(seeds[i]) = Undefined)
       => /\ startLog'[Len(startLog')].result = "NoValidSeeds"
          /\ crawl_jobs' = crawl_jobs
          /\ crawl_queue' = crawl_queue
          /\ pages' = pages
          /\ links' = links]_vars

(* start was called with an ftp URL and an unparseable text and has failed  *)
C7_Witness ==
  \E n \in 1..Len(startLog) :
    /\ startLog[n].call.seedUrls = <<FtpUrl, NotAUrl>>
    /\ startLog[n].result = "NoValidSeeds"

(* C8: two calls of start with the same seeds and the same options give two *)
(* distinct jobIds and two jobs whatever the time between them, also within *)
(* one clock millisecond; neither call fails because of the other.          *)
C8_StartTwiceDistinct ==
  \A m, n \in 1..Len(startLog) :
    (/\ m < n
     /\ startLog[m].call.seedUrls = startLog[n].call.seedUrls
     /\ startLog[m].call.options = startLog[n].call.options
     /\ startLog[m].result = "ok")
      => /\ startLog[n].result = "ok"
         /\ startLog[n].jobId # startLog[m].jobId

(* C9: when processJobOnce starts for a job whose done count is >= maxPages *)
(* it sets the job finished and does nothing else in that step: no item is  *)
(* claimed, nothing is fetched, no queue row changes.                       *)
C9_MaxPagesFinishes ==
  [][\A w \in Workers : \A n \in 1..Len(crawl_jobs) :
       (/\ pc[w] = "snap" /\ <<pc'[w], jobsList'[w]>> # <<pc[w], jobsList[w]>>
        /\ crawl_jobs[n].id = Head(jobsList[w]).id
        /\ Cardinality({i \in 1..Len(crawl_queue) :
                          /\ crawl_queue[i].job_id = crawl_jobs[n].id
                          /\ crawl_queue[i].status = "done"}) >= crawl_jobs[n].options_json.maxPages)
         => /\ crawl_jobs'[n].status = "finished"
            /\ crawl_jobs'[n].finished_at = now
            /\ \A k \in 1..Len(crawl_jobs) : k # n => crawl_jobs'[k] = crawl_jobs[k]
            /\ crawl_queue' = crawl_queue
            /\ pages' = pages
            /\ links' = links
            /\ fetchCount' = fetchCount
            /\ pc'[w] \in {"snap", "idle"}
            /\ jobsList'[w] = Tail(jobsList[w])
            /\ item'[w] = NoItem]_vars

(* a job is finished with done >= maxPages while a row of it is still pending *)
C9_Witness ==
  \E n \in 1..Len(crawl_jobs) :
    /\ crawl_jobs[n].status = "finished"
    /\ Cardinality({i \in 1..Len(crawl_queue) :
                      /\ crawl_queue[i].job_id = crawl_jobs[n].id
                      /\ crawl_queue[i].status = "done"}) >= crawl_jobs[n].options_json.maxPages
    /\ \E i \in 1..Len(crawl_queue) :
         crawl_queue[i].job_id = crawl_jobs[n].id /\ crawl_queue[i].status = "pending"

(* C10: when the claim in processJobOnce returns no item, the job is set    *)
(* finished only if it has no pending and no processing row; when a pending *)
(* row is merely not yet due or a row is processing, the job is unchanged.  *)
C10_FinishOnlyWhenDrained ==
  [][\A w \in Workers :
       (pc[w] = "claim" /\ pc'[w] \in {"snap", "idle"}) =>
         LET open == {i \in 1..Len(crawl_queue) :
                        /\ crawl_queue[i].job_id = Head(jobsList[w]).id
                        /\ crawl_queue[i].status \in {"pending", "processing"}}
         IN /\ open # {} => crawl_jobs' = crawl_jobs
            /\ crawl_jobs' # crawl_jobs =>
                 /\ open = {}
                 /\ \A n \in 1..Len(crawl_jobs) :
                      crawl_jobs'[n] # crawl_jobs[n] =>
                        /\ crawl_jobs[n].id = Head(jobsList[w]).id
                        /\ crawl_jobs'[n].status = "finished"]_vars

(* a tick is at the claim of a running job all of whose open rows are       *)
(* pending and not yet due, or processing in another tick                   *)
C10_Witness ==
  \E w \in Workers : \E n \in 1..Len(crawl_jobs) :
    /\ pc[w] = "claim"
    /\ crawl_jobs[n].id = Head(jobsList[w]).id
    /\ crawl_jobs[n].status = "running"
    /\ \E i \in 1..Len(crawl_queue) :
         /\ crawl_queue[i].job_id = crawl_jobs[n].id
         /\ crawl_queue[i].status = "pending" /\ crawl_queue[i].next_fetch_at > now
    /\ \E i \in 1..Len(crawl_queue) :
         /\ crawl_queue[i].job_id = crawl_jobs[n].id
         /\ crawl_queue[i].status = "processing"
    /\ \A i \in 1..Len(crawl_queue) :
         (crawl_queue[i].job_id = crawl_jobs[n].id /\ crawl_queue[i].status = "pending")
           => crawl_queue[i].next_fetch_at > now

(* C11: a job is set failed only by an item failure after which more than   *)
(* 25 of its queue rows are failed and none is done; an item failure that   *)
(* leaves failed <= 25 or done >= 1 leaves the job's status as it was.      *)
C11_JobFailedThreshold ==
  [][\A n \in 1..Len(crawl_jobs) :
       LET jobId == crawl_jobs[n].id
           failedAfter == CountStatus(crawl_queue', jobId, "failed")
           doneAfter == CountStatus(crawl_queue', jobId, "done")
           failure == \E w \in Workers : \E i \in 1..Len(crawl_queue) :
                        /\ pc[w] = "fetch" /\ pc'[w] # "fetch"
                        /\ Head(jobsList[w]).id = jobId
                        /\ crawl_queue[i].id = item[w].id
                        /\ crawl_queue'[i].retries = crawl_queue[i].retries + 1
       IN /\ (crawl_jobs'[n].status = "failed" /\ crawl_jobs[n].status # "failed")
               => (failure /\ failedAfter > 25 /\ doneAfter = 0
                   /\ crawl_jobs'[n].finished_at = now)
          /\ (failure /\ (failedAfter <= 25 \/ doneAfter >= 1))
               => crawl_jobs'[n].status = crawl_jobs[n].status]_vars

(* the job has been set failed, with 26 failed rows and none done           *)
C11_Witness ==
  \E n \in 1..Len(crawl_jobs) :
    /\ crawl_jobs[n].status = "failed"
    /\ CountStatus(crawl_queue, crawl_jobs[n].id, "failed") = 26
    /\ CountStatus(crawl_queue, crawl_jobs[n].id, "done") = 0

C13_UnchangedSkip ==
  [][\A w \in Workers :
       (pc[w] = "fetch" /\ pc'[w] # "fetch" /\ (pages' # pages \/ links' # links)) =>
         \E k \in 1..Len(pages') :
           LET saved == pages'[k]
               latest(url) ==
                 {i \in 1..Len(pages) :
                    /\ pages[i].url = url
                    /\ \A j \in 1..Len(pages) :
                         pages[j].url = url => pages[j].fetched_at <= pages[i].fetched_at}
               previous == IF latest(saved.url) # {} THEN latest(saved.url)
                           ELSE latest(normalizeCrawlUrl(item[w].url))
           IN /\ saved.fetched_at = now
              /\ k > Len(pages) \/ pages[k] # saved \/ pages' = pages
              /\ previous = {} \/ \E i \in previous : pages[i].content_hash # saved.content_hash
    ]_vars

(* C13 witness: a seed was fetched, redirected and saved under the         *)
(* response URL; the link to that URL was then fetched with the same       *)
(* content and skipped: two rows fetched and done, one pages row.          *)
C13_Witness ==
  \E a, b \in 1..Len(crawl_queue) :
    /\ crawl_queue[a].depth = 0 /\ crawl_queue[b].depth = 1
    /\ crawl_queue[a].status = "done" /\ crawl_queue[b].status = "done"
    /\ fetchCount[crawl_queue[a].id] = 1 /\ fetchCount[crawl_queue[b].id] = 1
    /\ Len(pages) = 1
    /\ pages[1].url = crawl_queue[b].url
    /\ pages[1].url # crawl_queue[a].url

(* C14: save -> discover.  A processing step that comes back from its      *)
(* fetch with new queue rows has completed its item and left a pages row   *)
(* for the URL the fetch ended at, written by this step or, for an         *)
(* unchanged page, by an earlier one; the new rows belong to the job of    *)
(* the step, one level below the item.  A step whose fetch, extraction or  *)
(* savePage failed leaves its item not done, so it adds no queue row.      *)
C14_SaveBeforeDiscover ==
  [][\A w \in Workers :
       (pc[w] = "fetch" /\ pc'[w] # "fetch" /\ Len(crawl_queue') > Len(crawl_queue)) =>
         /\ \A i \in 1..Len(crawl_queue') :
              crawl_queue'[i].id = item[w].id => crawl_queue'[i].status = "done"
         /\ \E k \in 1..Len(pages') : pages'[k].url \in FetchUrls(w)
         /\ \A i \in (Len(crawl_queue) + 1)..Len(crawl_queue') :
              /\ crawl_queue'[i].job_id = job(w).id
              /\ crawl_queue'[i].depth = item[w].depth + 1
    ]_vars

(* C14 witness: the link of a fetched seed is in the queue, the seed is    *)
(* done and its page is stored; the fetch of the link then failed in       *)
(* savePage after its pages row had been written: the link is pending      *)
(* again and the queue has got no further row.                             *)
C14_Witness ==
  \E a, b \in 1..Len(crawl_queue) :
    /\ Len(crawl_queue) = 2
    /\ crawl_queue[a].depth = 0 /\ crawl_queue[a].status = "done"
    /\ fetchCount[crawl_queue[a].id] = 1
    /\ crawl_queue[b].depth = 1 /\ crawl_queue[b].job_id = crawl_queue[a].job_id
    /\ crawl_queue[b].status = "pending" /\ crawl_queue[b].retries = 1
    /\ \E k \in 1..Len(pages) : pages[k].url = crawl_queue[a].url
    /\ \E k \in 1..Len(pages) : pages[k].url = crawl_queue[b].url

(* C15: politeness.  When a processing step starts the fetch of a page,    *)
(* the last fetch of the same host by the same process, successful or      *)
(* failed, ended at least suggestedDelay = max(perDomainDelayMs, robots    *)
(* crawl-delay, adaptive latency term) milliseconds ago, and no other      *)
(* fetch of that host by the process is still under way.                   *)
C15_Politeness ==
  [][\A w \in Workers :
       (pc[w] # "fetch" /\ pc'[w] = "fetch") =>
         LET p == Process(w)
             host == item[w].domain
             origin == Origin(normalizeCrawlUrl(item[w].url))
             crawlDelay == IF options(w).respectRobots
                              /\ robotsCache'[p][origin].crawlDelayMs # NoCrawlDelay
                           THEN robotsCache'[p][origin].crawlDelayMs ELSE 0
             adaptive == IF host \in DOMAIN domainPerformance[p]
                         THEN (domainPerformance[p][host].avgLatencyMs * 14 + 5) \div 10
                         ELSE 0
             suggestedDelay == Max2(options(w).perDomainDelayMs, Max2(crawlDelay, adaptive))
         IN /\ host \in DOMAIN lastFetchEnd[p] => now - lastFetchEnd[p][host] >= suggestedDelay
            /\ \A v \in Workers \ {w} :
                 Process(v) = p /\ pc[v] = "fetch" => item[v].domain # host
    ]_vars

(* A step of w takes the robots decision for its item: the item passed the *)
(* depth and shouldQueue checks, the job respects robots, and the rules of *)
(* the origin are at hand, from the cache or from the fetch of robots.txt  *)
(* that has just returned; after the step they are the cached rules.       *)
RobotsDecision(w) ==
  /\ pc[w] \in {"claimed", "robots"}
  /\ pc'[w] \notin {"claimed", "robots"}
  /\ options(w).respectRobots
  /\ item[w].depth <= options(w).maxDepth
  /\ normalizeCrawlUrl(item[w].url) # Undefined
  /\ shouldQueue(normalizeCrawlUrl(item[w].url), options(w), job(w).seedUrls)

(* C16, original statement: a robots-blocked item is completed silently,   *)
(* and no fetch of a page starts whose URL the robots.txt that the origin  *)
(* serves disallows.                                                       *)
C16_NeverFetchesDisallowed ==
  [][\A w \in Workers :
       LET url == normalizeCrawlUrl(item[w].url)
           rules == robotsCache'[Process(w)][Origin(url)]
       IN /\ (RobotsDecision(w) /\ ~canCrawl(url, rules)) =>
               /\ pc'[w] \notin {"delay", "fetch"}
               /\ fetchCount' = fetchCount
               /\ pages' = pages /\ links' = links
               /\ Len(crawl_queue') = Len(crawl_queue)
               /\ \A i \in 1..Len(crawl_queue) :
                    crawl_queue'[i] = IF crawl_queue[i].id = item[w].id
                                      THEN [crawl_queue[i] EXCEPT !.status = "done"]
                                      ELSE crawl_queue[i]
          /\ (pc[w] # "fetch" /\ pc'[w] = "fetch" /\ options(w).respectRobots) =>
               canCrawl(url, robotsTxt)
    ]_vars

(* C16, amended: a robots-blocked item is completed silently: it is marked *)
(* done, nothing else of the queue changes (retries and last_error stay),  *)
(* no fetch is started, no page is saved and no link is enqueued; and no   *)
(* fetch of a page starts whose URL is disallowed by the rules that        *)
(* getRules returned for its origin: the cached rules, or the empty rule   *)
(* set when robots.txt could not be fetched.                               *)
C16_RobotsBlocked ==
  [][\A w \in Workers :
       LET url == normalizeCrawlUrl(item[w].url)
           rules == robotsCache'[Process(w)][Origin(url)]
       IN /\ (RobotsDecision(w) /\ ~canCrawl(url, rules)) =>
               /\ pc'[w] \notin {"delay", "fetch"}
               /\ fetchCount' = fetchCount
               /\ pages' = pages /\ links' = links
               /\ Len(crawl_queue') = Len(crawl_queue)
               /\ \A i \in 1..Len(crawl_queue) :
                    crawl_queue'[i] = IF crawl_queue[i].id = item[w].id
                                      THEN [crawl_queue[i] EXCEPT !.status = "done"]
                                      ELSE crawl_queue[i]
          /\ (pc[w] # "fetch" /\ pc'[w] = "fetch" /\ options(w).respectRobots) =>
               canCrawl(url, rules)
    ]_vars

(* C16 witness: the robots.txt of the origin was fetched and disallows the *)
(* URL of a seed that passes shouldQueue; the seed is done, was never      *)
(* fetched, has no retry and no error, and no page is stored.              *)
C16_Witness ==
  \E i \in 1..Len(crawl_queue), j \in 1..Len(crawl_jobs) :
    LET row == crawl_queue[i]
        opts == toRuntimeOptions(crawl_jobs[j].options_json)
    IN /\ crawl_jobs[j].id = row.job_id
       /\ opts.respectRobots
       /\ shouldQueue(row.url, opts, crawl_jobs[j].seed_url_json)
       /\ Origin(row.url) \in DOMAIN robotsCache["p1"]
       /\ ~canCrawl(row.url, robotsCache["p1"][Origin(row.url)])
       /\ row.status = "done" /\ row.retries = 0 /\ row.last_error = Null
       /\ fetchCount[row.id] = 0
       /\ pages = <<>>

(* C17: canCrawl(url, rules) is true iff, among the rules other than "/"   *)
(* that are a prefix of pathname + search, no allow rule and no disallow   *)
(* rule matches, or an allow rule matches that is at least as long as      *)
(* every matching disallow rule.  Stated for the URLs and robots.txt files *)
(* of the model, and for every queue URL under the rules a process has     *)
(* cached for its origin.                                                  *)
C17_CanCrawlLongestMatch ==
  LET target(url) == Pathname(ParseURL(url)) \o Search(ParseURL(url))
      matching(url, list) ==
        {i \in 1..Len(list) :
           /\ list[i] # <<"/">>
           /\ Len(list[i]) <= Len(target(url))
           /\ \A k \in 1..Len(list[i]) : list[i][k] = target(url)[k]}
      allowed(url, rules) ==
        \/ matching(url, rules.allow) = {} /\ matching(url, rules.disallow) = {}
        \/ \E a \in matching(url, rules.allow) :
             \A d \in matching(url, rules.disallow) :
               Len(rules.allow[a]) >= Len(rules.disallow[d])
  IN /\ \A rules \in RobotsFiles :
          \A url \in {normalizeCrawlUrl(u) : u \in {RootUrl, DocsUrl, GuideUrlRaw, LoginUrl}} :
            canCrawl(url, rules) <=> allowed(url, rules)
     /\ \A p \in Procs : \A i \in 1..Len(crawl_queue) :
          Origin(crawl_queue[i].url) \in DOMAIN robotsCache[p] =>
            (canCrawl(crawl_queue[i].url, robotsCache[p][Origin(crawl_queue[i].url)])
               <=> allowed(crawl_queue[i].url, robotsCache[p][Origin(crawl_queue[i].url)]))

(* C17 witness: the cached rules of the origin have an allow rule and a    *)
(* disallow rule of the same length that both match the URL of a queue     *)
(* row, and a rule "/"; the row was fetched.                               *)
C17_Witness ==
  \E i \in 1..Len(crawl_queue) :
    LET origin == Origin(crawl_queue[i].url)
        target == Pathname(ParseURL(crawl_queue[i].url))
    IN /\ origin \in DOMAIN robotsCache["p1"]
       /\ \E a \in 1..Len(robotsCache["p1"][origin].allow) :
            \E d \in 1..Len(robotsCache["p1"][origin].disallow) :
              /\ robotsCache["p1"][origin].allow[a] = target
              /\ robotsCache["p1"][origin].disallow[d] = target
       /\ \E d \in 1..Len(robotsCache["p1"][origin].disallow) :
            robotsCache["p1"][origin].disallow[d] = <<"/">>
       /\ fetchCount[crawl_queue[i].id] = 1

C19_DepthLimit ==
  /\ [](\A i \in 1..Len(crawl_queue) : \A j \in 1..Len(crawl_jobs) :
          crawl_jobs[j].id = crawl_queue[i].job_id =>
            crawl_queue[i].depth <= toRuntimeOptions(crawl_jobs[j].options_json).maxDepth)
  /\ [](\A w \in Workers :
          pc[w] \in {"delay", "fetch"} => item[w].depth <= options(w).maxDepth)
  /\ [][\A w \in Workers :
          (pc[w] = "claimed" /\ pc'[w] # "claimed" /\ item[w].depth > options(w).maxDepth) =>
            /\ pc'[w] \notin {"robots", "delay", "fetch"}
            /\ fetchCount' = fetchCount
            /\ \A i \in 1..Len(crawl_queue') :
                 crawl_queue'[i].id = item[w].id => crawl_queue'[i].status = "done"
      ]_vars

(* C19 witness: a job with maxDepth 0 fetched the page of a seed and saved *)
(* it with a link to /docs, a URL in its scope; the seed is done and the   *)
(* queue has no row below depth 0.                                         *)
C19_Witness ==
  \E i \in 1..Len(crawl_queue), k \in 1..Len(pages) :
    /\ crawl_queue[i].status = "done"
    /\ pages[k].url = crawl_queue[i].url
    /\ [from_page_id |-> pages[k].id, to_url |-> DocsUrlRaw] \in links
    /\ \A n \in 1..Len(crawl_queue) : crawl_queue[n].depth = 0
    /\ \A j \in 1..Len(crawl_jobs) :
         toRuntimeOptions(crawl_jobs[j].options_json).maxDepth = 0

(* C20: a processing step whose fetch, extraction or persistence throws    *)
(* does not leave its item done or processing: the item is pending with    *)
(* one more retry, or failed when that makes three, its last_error is the  *)
(* message, the tick goes on with the next job, and no page is saved: the  *)
(* pages and links tables are as they were.                                *)
C20_ExceptionToFail ==
  [][\A w \in Workers : \A i \in 1..Len(crawl_queue) :
       (/\ pc[w] = "fetch" /\ pc'[w] # "fetch"
        /\ crawl_queue[i].id = item[w].id
        /\ crawl_queue'[i].status # "done") =>
         /\ crawl_queue'[i].retries = crawl_queue[i].retries + 1
         /\ crawl_queue'[i].status =
              IF crawl_queue'[i].retries >= MaxRetries THEN "failed" ELSE "pending"
         /\ crawl_queue'[i].last_error \in ErrorMessages
         /\ jobsList'[w] = Tail(jobsList[w])
         /\ pages' = pages
         /\ links' = links
    ]_vars

(* the limits next is called with: CrawlNextInputSchema has 1..100, the     *)
(* model's tables stay below LargeLimit rows                               *)
LargeLimit == 100
NextLimits == {1, 2, LargeLimit}

(* C21: next(jobId, limit) returns at most limit pages, newest fetched_at  *)
(* first, each with the URL of a done queue row of the job; and every page *)
(* that a processing step of the job saves is, from then on, among the     *)
(* pages next returns for a large enough limit.                            *)
C21_NextReturnsCrawled ==
  /\ [](\A j \in 1..Len(crawl_jobs) : \A limit \in NextLimits :
          \A result \in next(pages, crawl_queue, crawl_jobs[j].id, limit) :
            /\ Len(result) <= limit
            /\ \A a, b \in 1..Len(result) :
                 a < b => result[a].fetched_at >= result[b].fetched_at
            /\ \A k \in 1..Len(result) :
                 \E i \in 1..Len(crawl_queue) :
                   /\ crawl_queue[i].job_id = crawl_jobs[j].id
                   /\ crawl_queue[i].status = "done"
                   /\ crawl_queue[i].url = result[k].url)
  /\ [][\A w \in Workers :
          (pc[w] = "fetch" /\ pc'[w] # "fetch" /\ pages' # pages) =>
            \A k \in 1..Len(pages') :
              (k > Len(pages) \/ pages'[k] # pages[k]) =>
                \A result \in next(pages', crawl_queue', job(w).id, LargeLimit) :
                  \E n \in 1..Len(result) : result[n] = pages'[k]
      ]_vars

C23_SavePageAtomic ==
  \A k \in 1..Len(pages) :
    \A n \in 1..Len(pages[k].page_json.links) :
      [from_page_id |-> pages[k].id, to_url |-> pages[k].page_json.links[n]] \in links

(* C24: normalization is idempotent: when normalizeCrawlUrl(u) is a URL,   *)
(* normalizing it again gives the same URL; and that URL has a lowercase   *)
(* host, no fragment, no default port, no utm_* or tracking query key in   *)
(* any case, its query keys in sorted order, and no trailing slash unless  *)
(* its path is the root.                                                   *)
C24_NormalizeIdempotent ==
  (lastCall.op = "normalizeCrawlUrl" /\ lastCall.result # Undefined) =>
    LET r == lastCall.result
    IN /\ lastCall.again = r
       /\ r.host \in {"example.com"}
       /\ r.hash = ""
       /\ ~(r.protocol = "http:" /\ r.port = "80")
       /\ ~(r.protocol = "https:" /\ r.port = "443")
       /\ \A i \in 1..Len(r.query) :
            r.query[i].k \notin {"utm_source", "UTM_Source", "ref"}
       /\ \A i, j \in 1..Len(r.query) :
            (i < j /\ r.query[i].k = "b") => r.query[j].k # "a"
       /\ r.path = <<>> \/ r.path[Len(r.path)] # ""

(* C24 witness: the URL of the unit test in the model's alphabet, with     *)
(* upper case in the host, the default port, a doubled and a trailing      *)
(* slash, a fragment and the query b, UTM_Source; it was normalized to     *)
(* https://example.com/docs/guide?b=1                                       *)
C24_Witness ==
  /\ lastCall.op = "normalizeCrawlUrl"
  /\ lastCall.input = Url("https:", "Example.com", "443", <<"docs", "", "guide", "", "">>,
                          <<[k |-> "b", v |-> "1"], [k |-> "UTM_Source", v |-> "1"]>>, "top")
  /\ lastCall.result = Url("https:", "example.com", "", <<"docs", "guide">>,
                           <<[k |-> "b", v |-> "1"]>>, "")

(* C25: scoreDiscoveredUrl returns an integer from 1 to 150 for every      *)
(* input, a URL that does not parse and a very large depth included; and   *)
(* for the same URL, depth and seed host the score with seed keywords is   *)
(* never below the score with no keyword.                                  *)
C25_ScoreInRange ==
  lastCall.op = "scoreDiscoveredUrl" =>
    /\ lastCall.result \in 1..150
    /\ lastCall.result >= lastCall.noMatch

(* C25 witness: a URL with the host of the seed and four path segments was *)
(* scored at depth 1 with six of its words among the seed keywords: 20     *)
(* above the score without keywords, which is the cap of the bonus.        *)
C25_Witness ==
  /\ lastCall.op = "scoreDiscoveredUrl"
  /\ lastCall.url = LongUrl /\ lastCall.nextDepth = 1
  /\ Cardinality(lastCall.seedKeywords) = 6
  /\ "other" \notin lastCall.seedKeywords
  /\ lastCall.noMatch = 87
  /\ lastCall.result = 107

C27_DocumentedDefaults ==
  \A n \in 1..Len(startLog) : \A j \in 1..Len(crawl_jobs) :
    (/\ startLog[n].result = "ok"
     /\ startLog[n].call.options = NoOptions
     /\ crawl_jobs[j].id = startLog[n].jobId) =>
      LET stored == crawl_jobs[j].options_json
          runtime == toRuntimeOptions(stored)
      IN /\ {"maxPages", "maxDepth", "mode", "respectRobots", "perDomainDelayMs",
              "seedFromSitemaps", "maxSitemapUrls", "adaptiveDelay"} \subseteq DOMAIN stored
         /\ \A o \in {stored, runtime} :
              /\ o.maxPages = DefaultMaxPages
              /\ o.maxDepth = DefaultMaxDepth
              /\ o.mode = "compact"
              /\ o.respectRobots = TRUE
              /\ o.perDomainDelayMs = DefaultPerDomainDelayMs
              /\ o.seedFromSitemaps = TRUE
              /\ o.maxSitemapUrls = DefaultMaxSitemapUrls
              /\ o.adaptiveDelay = TRUE

(* the depths and priorities enqueueUrl is called with                      *)
EnqueueDepths == 0..2
EnqueuePriorities == {1, 100, ScoreMax}

(* enqueueUrl for a (jobId, url) that has a row leaves the table as it is,  *)
(* and a step changes a row only by claiming, completing or failing it      *)
EnqueueKeepsRows ==
  /\ [](\A i \in 1..Len(crawl_queue) : \A depth \in EnqueueDepths :
          \A priority \in EnqueuePriorities :
            enqueueUrl(crawl_queue, crawl_queue[i].job_id, crawl_queue[i].url, depth,
                       priority, now) = crawl_queue)
  /\ [][/\ Len(crawl_queue') >= Len(crawl_queue)
        /\ \A i \in 1..Len(crawl_queue) :
             /\ crawl_queue'[i].id = crawl_queue[i].id
             /\ crawl_queue'[i].depth = crawl_queue[i].depth
             /\ crawl_queue'[i].priority = crawl_queue[i].priority
             /\ (crawl_queue[i].status \in {"processing", "done", "failed"}
                 /\ crawl_queue'[i].status = "pending") =>
                  crawl_queue'[i].retries = crawl_queue[i].retries + 1
             /\ (crawl_queue'[i].retries = crawl_queue[i].retries
                 /\ crawl_queue'[i].status = crawl_queue[i].status) =>
                  crawl_queue'[i] = crawl_queue[i]]_vars

C29_DoneFailedTerminal ==
  [][\A i \in 1..Len(crawl_queue) :
       crawl_queue[i].status \in {"done", "failed"} =>
         /\ crawl_queue'[i].status = crawl_queue[i].status
         /\ crawl_queue'[i].retries = crawl_queue[i].retries]_vars

(* C30: job statuses finished and failed are absorbing: once a job is      *)
(* finished or failed no later operation of the engine changes its status  *)
(* or its finished_at, neither a processJobOnce still in flight nor one    *)
(* started from a job list taken before the job became terminal.           *)
C30_JobTerminalAbsorbing ==
  [][\A j \in 1..Len(crawl_jobs) :
       crawl_jobs[j].status \in {"finished", "failed"} =>
         /\ crawl_jobs'[j].status = crawl_jobs[j].status
         /\ crawl_jobs'[j].finished_at = crawl_jobs[j].finished_at]_vars

C32_DoneAtMostMaxPages ==
  \A j \in 1..Len(crawl_jobs) :
    CountStatus(crawl_queue, crawl_jobs[j].id, "done")
      <= toRuntimeOptions(crawl_jobs[j].options_json).maxPages

SeedingPcs == {"init", "initRobots", "initLookup", "initSitemaps"}

(* C33: sitemap initialization gets past its first line at most once per   *)
(* job and process, also when another tick starts while the first one is   *)
(* awaiting robots.txt or the sitemaps; a step of the initialization, with *)
(* whatever fails inside it, changes no row of crawl_jobs and no existing  *)
(* row of crawl_queue; and a tick leaves the initialization only for the   *)
(* claim of the same step, on the same job with the same status snapshot   *)
C33_InitOnceFailuresSwallowed ==
  /\ [](\A p \in Procs : \A j \in DOMAIN initRuns[p] : initRuns[p][j] <= 1)
  /\ [][\A w \in Workers :
          pc[w] \in SeedingPcs /\ pc'[w] # pc[w] =>
            /\ crawl_jobs' = crawl_jobs
            /\ Len(crawl_queue') >= Len(crawl_queue)
            /\ \A i \in 1..Len(crawl_queue) : crawl_queue'[i] = crawl_queue[i]
            /\ pc'[w] \in SeedingPcs \cup {"claim"}
            /\ jobsList'[w] = jobsList[w]
            /\ statusSnap'[w] = statusSnap[w]]_vars

(* C33 witness: a tick has claimed a row after its initialization caught   *)
(* an error of enqueueUrl behind a failed robots.txt fetch, having seeded  *)
(* one sitemap URL before; the other tick, which started meanwhile, holds  *)
(* another row of the same job                                             *)
C33_Witness ==
  \E w \in Workers, v \in Workers :
    /\ deployment = "sitemap"
    /\ w # v
    /\ pc[w] = "claimed"
    /\ initLoop[w].caught > 0
    /\ initRuns[Process(w)][job(w).id] = 1
    /\ pc[v] \in {"robots", "delay", "fetch"}
    /\ item[v].id # item[w].id
    /\ item[v].job_id = item[w].job_id
    /\ \E o \in DOMAIN robotsCache[Process(w)] :
         robotsCache[Process(w)][o] = emptyRules(robotsCache[Process(w)][o].fetchedAt)
    /\ \E i \in 1..Len(crawl_queue) :
         crawl_queue[i].priority = SitemapPriority /\ crawl_queue[i].depth = 0
    /\ \A j \in 1..Len(crawl_jobs) : crawl_jobs[j].status = "running"

(* what a step that completed its item after the fetch leaves behind, for  *)
(* the links of the page the fetch returned                                *)
C34_StepEffects(w, pageLinks) ==
  LET nextDepth == item[w].depth + 1
      queueable == {normalizeCrawlUrl(pageLinks[k]) : k \in 1..Len(pageLinks)} \ {Undefined}
      wanted == {u \in queueable : shouldQueue(u, options(w), job(w).seedUrls)}
  IN /\ \A i \in 1..Len(crawl_queue) :
          /\ crawl_queue[i].id = item[w].id => crawl_queue'[i].status = "done"
          /\ crawl_queue[i].id # item[w].id => crawl_queue'[i] = crawl_queue[i]
     /\ domainLastFetch'[Process(w)][item[w].domain] = now
     /\ IF nextDepth <= options(w).maxDepth
        THEN /\ \A u \in wanted :
                  \E i \in 1..Len(crawl_queue') :
                    crawl_queue'[i].job_id = job(w).id /\ crawl_queue'[i].url = u
             /\ \A i \in (Len(crawl_queue) + 1)..Len(crawl_queue') :
                  /\ crawl_queue'[i].job_id = job(w).id
                  /\ crawl_queue'[i].url \in wanted
                  /\ crawl_queue'[i].depth = nextDepth
                  /\ crawl_queue'[i].status = "pending"
        ELSE Len(crawl_queue') = Len(crawl_queue)

(* C34: a step whose fetch returned a page and that threw nothing has the  *)
(* same effects whether or not the page was saved: the item is done, the   *)
(* domain's lastFetch is the time of the step, and when depth + 1 is       *)
(* within maxDepth every link of the returned page that normalizes and     *)
(* passes shouldQueue has a queue row for the job, each new row being      *)
(* pending at depth + 1 and coming from such a link; beyond maxDepth no    *)
(* row is added.  In particular this holds when the page is skipped as     *)
(* unchanged.                                                              *)
C34_UnchangedStillDiscovers ==
  [][\A w \in Workers, contentHash \in ContentHashes, pageLinks \in LinkLists :
       \A responseUrl \in FetchUrls(w) :
         FetchOk(w, contentHash, pageLinks, responseUrl) => C34_StepEffects(w, pageLinks)]_vars

(* C34 witness: the first fetch of a seed returned a page whose pages row  *)
(* was written before savePage threw; the retry returned the same content  *)
(* and was skipped as unchanged: one pages row, no links row, the item     *)
(* fetched twice and done, and a link of the page pending at depth 1       *)
C34_Witness ==
  \E a, c \in 1..Len(crawl_queue) :
    /\ deployment = "pages"
    /\ crawl_queue[a].depth = 0
    /\ crawl_queue[a].status = "done"
    /\ crawl_queue[a].retries = 1
    /\ fetchedOk[crawl_queue[a].id] = 2
    /\ Len(pages) = 1
    /\ links = {}
    /\ crawl_queue[c].depth = 1 /\ crawl_queue[c].status = "pending"
    /\ crawl_queue[c].job_id = crawl_queue[a].job_id
    /\ crawl_queue[a].domain \in DOMAIN domainLastFetch["p1"]
    /\ domainLastFetch["p1"][crawl_queue[a].domain] = now

(* a row in processing that no tick of a running process holds: its        *)
(* process stopped after the claim                                         *)
Stale(i) ==
  /\ crawl_queue[i].status = "processing"
  /\ \A w \in Workers : item[w].id # crawl_queue[i].id

(* C35: the row claimNextQueueItem selects and returns is pending in the   *)
(* store until its own UPDATE; a row in processing is changed only by a    *)
(* step of the tick that holds it; a row left in processing by a process   *)
(* that stopped is never changed and never held again; and a job with such *)
(* a row is set finished only when its done count has reached maxPages     *)
C35_ProcessingRowsStay ==
  /\ [][\A w \in Workers :
          (pc[w] \in {"claim", "selected"} /\ pc'[w] \in {"selected", "claimed"}) =>
            \E i \in 1..Len(crawl_queue) :
              crawl_queue[i].id = item'[w].id /\ crawl_queue[i].status = "pending"]_vars
  /\ [][\A i \in 1..Len(crawl_queue) :
          (crawl_queue[i].status = "processing" /\ crawl_queue'[i] # crawl_queue[i]) =>
            \E w \in Workers :
              /\ item[w].id = crawl_queue[i].id
              /\ pc[w] \in {"claimed", "robots", "delay", "fetch"}
              /\ pc'[w] # pc[w]]_vars
  /\ [][\A i \in 1..Len(crawl_queue) :
          Stale(i) => crawl_queue'[i] = crawl_queue[i] /\ Stale(i)']_vars
  /\ [][\A j \in 1..Len(crawl_jobs) :
          ( /\ \E i \in 1..Len(crawl_queue) :
                 Stale(i) /\ crawl_queue[i].job_id = crawl_jobs[j].id
            /\ crawl_jobs'[j] # crawl_jobs[j]
            /\ crawl_jobs'[j].status = "finished" ) =>
            CountStatus(crawl_queue, crawl_jobs[j].id, "done")
              >= toRuntimeOptions(crawl_jobs[j].options_json).maxPages]_vars

(* C35 witness: the process stopped during the fetch of a seed and was     *)
(* started again; time has passed, the new process fetched the other seed  *)
(* and set the job finished at maxPages, and the first row is still in     *)
(* processing                                                              *)
C35_Witness ==
  \E i, k \in 1..Len(crawl_queue) :
    /\ deployment = "restart"
    /\ Stale(i)
    /\ fetchCount[crawl_queue[i].id] = 1
    /\ crawl_queue[k].status = "done"
    /\ crawl_queue[k].job_id = crawl_queue[i].job_id
    /\ now > 0
    /\ \A w \in Workers : pc[w] = "idle"
    /\ initializedJobs["p1"] # {}
    /\ \E j \in 1..Len(crawl_jobs) :
         /\ crawl_jobs[j].id = crawl_queue[i].job_id
         /\ crawl_jobs[j].status = "finished"

(* C36: the step in which await getRules returns after a request changes   *)
(* no job, fails no row and leaves the item processing or done; when the   *)
(* request failed the cached rule set is the empty one, the item is not    *)
(* completed but goes on to the fetch, and its wait is the one computed    *)
(* from perDomainDelayMs and the adaptive delay alone; under the empty     *)
(* rule set canCrawl accepts every URL of the queue; a request for         *)
(* robots.txt is started only for an origin without a cache entry or with  *)
(* one that is six hours old, and an entry is replaced only by the result  *)
(* of a request                                                            *)
C36_RobotsFailureHarmless ==
  /\ [][\A w \in Workers :
          (pc[w] = "robots" /\ pc'[w] # "robots") =>
            LET o == Origin(normalizeCrawlUrl(item[w].url))
                rules == robotsCache'[Process(w)][o]
                perf == domainPerformance[Process(w)]
                avgLatencyMs == IF item[w].domain \in DOMAIN perf
                                THEN perf[item[w].domain].avgLatencyMs ELSE 0
                plainDelay == Max2(options(w).perDomainDelayMs, RoundDiv(avgLatencyMs * 14, 10))
            IN /\ crawl_jobs' = crawl_jobs
               /\ \A i \in 1..Len(crawl_queue) :
                    /\ crawl_queue'[i].retries = crawl_queue[i].retries
                    /\ crawl_queue'[i].last_error = crawl_queue[i].last_error
                    /\ crawl_queue'[i].status \in {crawl_queue[i].status, "done"}
               /\ rules.fetchedAt = now
               /\ rules = emptyRules(now) =>
                    /\ crawl_queue' = crawl_queue
                    /\ pc'[w] \in {"delay", "fetch"}
                    /\ pc'[w] = "delay" => wakeAt'[w] <= now + plainDelay]_vars
  /\ [](\A i \in 1..Len(crawl_queue) : canCrawl(crawl_queue[i].url, emptyRules(now)))
  /\ [][\A w \in Workers :
          (pc[w] = "claimed" /\ pc'[w] = "robots") =>
            LET o == Origin(normalizeCrawlUrl(item[w].url))
                cache == robotsCache[Process(w)]
            IN o \notin DOMAIN cache \/ now - cache[o].fetchedAt >= RobotsTtlMs]_vars
  /\ [][\A p \in Procs : \A o \in DOMAIN robotsCache[p] :
          robotsCache'[p][o] # robotsCache[p][o] =>
            \E w \in Workers : Process(w) = p /\ pc[w] = "robots" /\ pc'[w] # "robots"]_vars

(* C36 witness: the robots.txt request at time 0 failed and the empty rule *)
(* set of that time is still cached one millisecond before the six hours   *)
(* are over; a URL that robots.txt disallows was fetched under it, and the *)
(* fetch of a second URL of the origin has started without a request       *)
C36_Witness ==
  \E w \in Workers, i \in 1..Len(crawl_queue) :
    LET o == Origin(normalizeCrawlUrl(item[w].url))
    IN /\ deployment = "hours"
       /\ now = RobotsTtlMs - 1
       /\ pc[w] = "fetch"
       /\ startedAt[w] = now
       /\ options(w).respectRobots
       /\ o \in DOMAIN robotsCache[Process(w)]
       /\ robotsCache[Process(w)][o] = emptyRules(0)
       /\ crawl_queue[i].id # item[w].id
       /\ Origin(crawl_queue[i].url) = o
       /\ crawl_queue[i].status = "done"
       /\ fetchedOk[crawl_queue[i].id] = 1
       /\ ~canCrawl(crawl_queue[i].url, robotsTxt)

(* C37: a call of discoverSitemapUrls returns, having fetched at most 12   *)
(* sitemaps and never having pushed onto a queue of 30 or more, at most    *)
(* limit page URLs, all different; when every fetch fails it returns none  *)
C37_DiscoverBounded ==
  lastCall.op = "discoverSitemapUrls" =>
    /\ lastCall.run.expansions <= SitemapExpansions
    /\ lastCall.run.pushedTo <= SitemapQueueCap
    /\ Len(lastCall.result) <= lastCall.limit
    /\ \A a, b \in 1..Len(lastCall.result) :
         lastCall.result[a] = lastCall.result[b] => a = b
    /\ \A a \in 1..Len(lastCall.result) : normalizeCrawlUrl(lastCall.result[a]) = lastCall.result[a]
    /\ (\A u \in DOMAIN lastCall.web : ~lastCall.web[u].ok) => lastCall.result = <<>>

(* C37 witness: an index that lists itself and a sitemap was followed      *)
(* until the twelfth fetch, with fewer page URLs found than the limit      *)
C37_Witness ==
  /\ lastCall.op = "discoverSitemapUrls"
  /\ lastCall.web = SiteWeb
  /\ lastCall.run.expansions = SitemapExpansions
  /\ lastCall.run.queue # <<>>
  /\ lastCall.result # <<>>
  /\ Len(lastCall.result) < lastCall.limit

Started(n) == Len(crawl_jobs) >= n
Ended(n) == Started(n) /\ crawl_jobs[n].status \in {"finished", "failed"}

C38_Witness ==
  /\ deployment = "live"
  /\ Ended(1)
  /\ now >= 3 * ClockStep
  /\ \E i, j \in 1..Len(crawl_queue) :
       /\ crawl_queue[i].status = "failed" /\ crawl_queue[i].retries = MaxRetries
       /\ crawl_queue[j].status = "done"

(* C38: while the worker keeps ticking and every request settles, every    *)
(* job that was started is eventually finished or failed                   *)
C38_JobsEnd ==
  \A n \in 1..MaxStarts : Started(n) ~> Ended(n)

RowsOf(queue, jobId) == SelectSeq(queue, LAMBDA row : row.job_id = jobId)
ItemPcs == {"claim", "selected", "claimed", "robots", "delay", "fetch"}

(* C40: the row a tick holds belongs to the job the tick is working on,    *)
(* and the queue rows and the status counters of a job change only in a    *)
(* step of a tick that is working on that job                              *)
C40_JobsIsolated ==
  /\ [](\A w \in Workers :
         pc[w] \in ItemPcs \ {"claim"} => item[w].job_id = job(w).id)
  /\ [][\A j \in 1..Len(crawl_jobs) :
          LET jobB == crawl_jobs[j].id
          IN ( \/ RowsOf(crawl_queue', jobB) # RowsOf(crawl_queue, jobB)
               \/ getCrawlJobStatus(crawl_jobs, crawl_queue', jobB).stats
                    # getCrawlJobStatus(crawl_jobs, crawl_queue, jobB).stats ) =>
               \E w \in Workers :
                 /\ pc[w] \in ItemPcs
                 /\ pc'[w] # pc[w]
                 /\ job(w).id = jobB]_vars

(* C40 witness: two jobs have a row for the same URL; the row of one was   *)
(* fetched and is done, the row of the other is pending and untouched      *)
C40_Witness ==
  \E i, k \in 1..Len(crawl_queue) :
    /\ deployment = "jobs"
    /\ crawl_queue[i].url = crawl_queue[k].url
    /\ crawl_queue[i].job_id # crawl_queue[k].job_id
    /\ crawl_queue[i].id # crawl_queue[k].id
    /\ crawl_queue[i].status = "done"
    /\ fetchedOk[crawl_queue[i].id] = 1
    /\ crawl_queue[k].status = "pending"
    /\ crawl_queue[k].retries = 0
    /\ fetchCount[crawl_queue[k].id] = 0
====
